---- MODULE Spec2Model ----
(***************************************************************************)
(* Verification model of the sentio memory service: the error taxonomies,  *)
(* the retry loops (MongoMemoryRepository::execute_with_retry and the two  *)
(* DeepSeekClient::generate_response loops), and the memory repository     *)
(* with its document-store and file-snapshot backends, the access layer of *)
(* shared_logic, the MemoryStore of the application crate, the higher-     *)
(* level mutators of the document store and the email workflow.            *)
(*                                                                         *)
(* The module holds several state machines over one set of variables; each *)
(* specification (SpecErr, SpecExec, SpecMongo, SpecFile, SpecAccess,      *)
(* SpecStore, SpecUpsert, SpecFlow) moves only the variables of its        *)
(* machine and leaves the others at their initial value.                   *)
(***************************************************************************)
EXTENDS Integers, Sequences, FiniteSets, TLC

VARIABLES
    errIn, errPc, errRetryableOut, errFatalOut,
    exLoop, exMax, exPc, exAttempt, exHist, exLastError, exResult, exSleeps,
    clock, mIdx, mCorpus, mInter, mFrag, mCur, mDeleted, mLastWrite, mCalls,
    fFile, fCorpus, fInter, fFrag, fLock, fTask, fCalls,
    aCorpus, aInter, aFrag, aNextId, aCur, aSaved, aCalls, aDb,
    sMem, sInter, sFile, sReaders, sTask, sNextId, sCalls,
    uCorpus, uTask, uCalls,
    wMsg, wPc, wTrace, wRes, wCalls

errVars == <<errIn, errPc, errRetryableOut, errFatalOut>>
exVars == <<exLoop, exMax, exPc, exAttempt, exHist, exLastError, exResult, exSleeps>>
mongoRest == <<mIdx, mCorpus, mInter, mFrag, mCur, mDeleted, mLastWrite, mCalls>>
mongoVars == <<clock, mIdx, mCorpus, mInter, mFrag, mCur, mDeleted, mLastWrite, mCalls>>
fileVars == <<fFile, fCorpus, fInter, fFrag, fLock, fTask, fCalls>>
accessVars == <<aCorpus, aInter, aFrag, aNextId, aCur, aSaved, aCalls, aDb>>
storeVars == <<sMem, sInter, sFile, sReaders, sTask, sNextId, sCalls>>
upsertVars == <<uCorpus, uTask, uCalls>>
flowVars == <<wMsg, wPc, wTrace, wRes, wCalls>>
vars == <<errVars, exVars, mongoVars, fileVars, accessVars, storeVars,
          upsertVars, flowVars>>

(***************************************************************************)
(* Strings whose content the code inspects are sequences of characters.    *)
(***************************************************************************)
UpperToLower ==
    [c \in {"A","B","C","D","E","F","G","H","I","J","K","L","M","N","O","P","Q",
            "R","S","T","U","V","W","X","Y","Z"} |->
        CASE c = "A" -> "a" [] c = "B" -> "b" [] c = "C" -> "c" [] c = "D" -> "d"
          [] c = "E" -> "e" [] c = "F" -> "f" [] c = "G" -> "g" [] c = "H" -> "h"
          [] c = "I" -> "i" [] c = "J" -> "j" [] c = "K" -> "k" [] c = "L" -> "l"
          [] c = "M" -> "m" [] c = "N" -> "n" [] c = "O" -> "o" [] c = "P" -> "p"
          [] c = "Q" -> "q" [] c = "R" -> "r" [] c = "S" -> "s" [] c = "T" -> "t"
          [] c = "U" -> "u" [] c = "V" -> "v" [] c = "W" -> "w" [] c = "X" -> "x"
          [] c = "Y" -> "y" [] c = "Z" -> "z"]

\* str::to_lowercase
to_lowercase(s) ==
    [i \in 1..Len(s) |-> IF s[i] \in DOMAIN UpperToLower THEN UpperToLower[s[i]] ELSE s[i]]

\* str::contains(needle)
contains(hay, needle) ==
    \E i \in 0..(Len(hay) - Len(needle)) :
        \A j \in 1..Len(needle) : hay[i + j] = needle[j]

S_network == <<"n","e","t","w","o","r","k">>
S_timeout == <<"t","i","m","e","o","u","t">>
S_connection == <<"c","o","n","n","e","c","t","i","o","n">>

\* Display texts of driver errors (mongodb::error::Error::to_string()).
CauseTexts ==
    { <<"N","e","t","w","o","r","k">>,
      <<"i","o"," ","t","i","m","e","o","u","t">>,
      <<"T","I","M","E","O","U","T">>,
      <<"C","o","n","n","e","c","t","i","o","n"," ","r","e","s","e","t">>,
      <<"n","e","t"," ","w","o","r","k">>,
      <<"t","i","m","e","d"," ","o","u","t">>,
      <<"d","u","p"," ","k","e","y">>,
      <<"a","u","t","h">>,
      <<"c","o","n","n","e","c","t">>,
      << >> }

NoText == << >>

(***************************************************************************)
(* Error taxonomies.  An error value is a record: the taxonomy it belongs  *)
(* to, its variant, and the text of its underlying cause.                  *)
(***************************************************************************)
Err(tax, kind, text) == [tax |-> tax, kind |-> kind, text |-> text]

NoErr == Err("none", "none", NoText)

MemoryErrorKinds ==
    { "DatabaseConnectionFailed", "DatabaseOperationFailed", "DocumentNotFound",
      "SerializationError", "DeserializationError", "MongoError",
      "ConfigurationError", "ValidationError", "ConcurrencyConflict",
      "StorageLimitExceeded", "IndexError" }

LlmErrorKinds ==
    { "ApiRequestFailed", "InvalidApiResponse", "AuthenticationFailed",
      "ConfigurationError", "PromptNotFound", "InternalError",
      "SerializationError", "NetworkError", "Timeout", "MaxRetriesExceeded",
      "ContentFiltered", "TokenLimitExceeded", "RateLimited" }

SrcLlmErrorKinds ==
    { "ApiRequestFailed", "InvalidApiResponse", "AuthenticationFailed",
      "ConfigurationError", "NetworkError", "RateLimited" }

EmailErrorKinds ==
    { "ConnectionError", "AuthenticationError", "ParseError", "SendError",
      "ConfigurationError", "TimeoutError", "TlsError", "ServerError",
      "ValidationError", "PermissionError", "InternalError" }

\* The variants that carry the text of a driver error.
TextKinds == { "MongoError", "DatabaseOperationFailed" }

MemoryErrors ==
    { Err("memory", k, NoText) : k \in MemoryErrorKinds \ TextKinds }
    \cup { Err("memory", k, t) : k \in TextKinds, t \in CauseTexts }
LlmErrors == { Err("llm", k, NoText) : k \in LlmErrorKinds }
SrcLlmErrors == { Err("llm_src", k, NoText) : k \in SrcLlmErrorKinds }
EmailErrors == { Err("email", k, NoText) : k \in EmailErrorKinds }
AllErrors == MemoryErrors \cup LlmErrors \cup SrcLlmErrors \cup EmailErrors

\* A variant of is_retryable that compares the cause text case-sensitively.
MemoryIsRetryable_CaseSensitive(e) ==
    CASE e.kind = "DatabaseConnectionFailed" -> TRUE
      [] e.kind = "DatabaseOperationFailed" -> FALSE
      [] e.kind = "MongoError" ->
            \/ contains(e.text, S_network)
            \/ contains(e.text, S_timeout)
            \/ contains(e.text, S_connection)
      [] e.kind = "ConcurrencyConflict" -> TRUE
      [] OTHER -> FALSE

\* MemoryError::is_retryable
MemoryIsRetryable(e) ==
    CASE e.kind = "DatabaseConnectionFailed" -> TRUE
      [] e.kind = "DatabaseOperationFailed" -> FALSE
      [] e.kind = "MongoError" ->
            LET error_str == to_lowercase(e.text)
            IN  \/ contains(error_str, S_network)
                \/ contains(error_str, S_timeout)
                \/ contains(error_str, S_connection)
      [] e.kind = "ConcurrencyConflict" -> TRUE
      [] OTHER -> FALSE

\* A variant of is_retryable that retries authentication failures.
LlmIsRetryable_Auth(e) ==
    e.kind \in { "NetworkError", "Timeout", "ApiRequestFailed", "AuthenticationFailed" }

\* LlmError::is_retryable (services/llm)
LlmIsRetryable(e) ==
    e.kind \in { "NetworkError", "Timeout", "ApiRequestFailed" }

\* The retry arm of the match in src/llm/client.rs generate_response
SrcLlmIsRetryable(e) ==
    e.kind \in { "NetworkError", "RateLimited" }

\* A variant of is_retryable that retries authentication errors.
EmailIsRetryable_Auth(e) ==
    e.kind \in { "ConnectionError", "TimeoutError", "ServerError", "AuthenticationError" }

\* EmailError::is_retryable
EmailIsRetryable(e) ==
    e.kind \in { "ConnectionError", "TimeoutError", "ServerError" }

\* EmailError::is_fatal
EmailIsFatal(e) ==
    e.kind \in { "AuthenticationError", "ConfigurationError", "ValidationError",
                 "PermissionError" }

is_retryable(e) ==
    CASE e.tax = "memory" -> MemoryIsRetryable(e)
      [] e.tax = "llm" -> LlmIsRetryable(e)
      [] e.tax = "llm_src" -> SrcLlmIsRetryable(e)
      [] e.tax = "email" -> EmailIsRetryable(e)

\* Only EmailError has an is_fatal method.
is_fatal(e) ==
    IF e.tax = "email" THEN EmailIsFatal(e) ELSE "none"

(***************************************************************************)
(* Machine 1: classification of one error value.                           *)
(***************************************************************************)
ErrIdle ==
    /\ errIn = NoErr /\ errPc = "idle"
    /\ errRetryableOut = "none" /\ errFatalOut = "none"

ErrInit ==
    /\ errIn \in AllErrors
    /\ errPc = "input"
    /\ errRetryableOut = "none"
    /\ errFatalOut = "none"

Classify ==
    /\ errPc = "input"
    /\ errRetryableOut' = is_retryable(errIn)
    /\ errFatalOut' = is_fatal(errIn)
    /\ errPc' = "classified"
    /\ UNCHANGED errIn

(***************************************************************************)
(* Machine 2: the retry loops.  exHist is the sequence of outcomes the     *)
(* operation produced, one per invocation; its length is the number of     *)
(* invocations.                                                            *)
(***************************************************************************)
MaxRetriesBound == 3

MAX_RETRIES == 3

OkOut(v) == [ok |-> TRUE, val |-> v, err |-> NoErr]
ErrOut(e) == [ok |-> FALSE, val |-> "none", err |-> e]

Values == { "v1", "v2" }

\* What the closure passed to execute_with_retry can return.
DbOutcomes ==
    { OkOut(v) : v \in Values }
    \cup { ErrOut(Err("memory", k, NoText)) :
             k \in { "DatabaseConnectionFailed", "ConcurrencyConflict",
                     "ValidationError", "DocumentNotFound", "ConfigurationError" } }
    \cup { ErrOut(Err("memory", k, t)) :
             k \in TextKinds,
             t \in { <<"N","e","t","w","o","r","k">>, <<"d","u","p"," ","k","e","y">> } }

\* What one HTTP exchange can produce: the send fails, or a response with a
\* status, a body and possibly a Retry-After header arrives.
Http(send_ok, status, body, retry_after) ==
    [send_ok |-> send_ok, status |-> status, body |-> body, retry_after |-> retry_after]

HttpOutcomes ==
    { Http(FALSE, 0, "none", 0),
      Http(TRUE, 200, "content", 0),
      Http(TRUE, 200, "no_content", 0),
      Http(TRUE, 200, "garbage", 0),
      Http(TRUE, 401, "other", 0),
      Http(TRUE, 429, "other", 0),
      Http(TRUE, 429, "other", 5),
      Http(TRUE, 400, "token limit", 0),
      Http(TRUE, 400, "content filtered", 0),
      Http(TRUE, 400, "other", 0),
      Http(TRUE, 500, "other", 0),
      Http(TRUE, 503, "other", 0) }

RECURSIVE Pow2(_)
Pow2(n) == IF n = 0 THEN 1 ELSE 2 * Pow2(n - 1)

\* The status match of services/llm generate_response.
LlmErrOfStatus(h) ==
    CASE h.status = 401 -> Err("llm", "AuthenticationFailed", NoText)
      [] h.status = 429 -> Err("llm", "RateLimited", NoText)
      [] h.status = 400 ->
            IF h.body = "token limit" THEN Err("llm", "TokenLimitExceeded", NoText)
            ELSE IF h.body = "content filtered" THEN Err("llm", "ContentFiltered", NoText)
            ELSE Err("llm", "ApiRequestFailed", NoText)
      [] OTHER -> Err("llm", "ApiRequestFailed", NoText)

\* src/llm/client.rs call_api: the result of one exchange.
call_api(h) ==
    IF ~h.send_ok THEN ErrOut(Err("llm_src", "NetworkError", NoText))
    ELSE CASE h.status = 200 ->
                IF h.body = "garbage"
                THEN ErrOut(Err("llm_src", "InvalidApiResponse", NoText))
                ELSE OkOut(h.body)
           [] h.status = 401 -> ErrOut(Err("llm_src", "AuthenticationFailed", NoText))
           [] h.status = 429 -> ErrOut(Err("llm_src", "RateLimited", NoText))
           [] OTHER -> ErrOut(Err("llm_src", "ApiRequestFailed", NoText))

ExIdle ==
    /\ exLoop = "none" /\ exMax = 0 /\ exPc = "idle" /\ exAttempt = 0
    /\ exHist = << >> /\ exLastError = NoErr /\ exResult = OkOut("none")
    /\ exSleeps = << >>

ExInit ==
    /\ exLoop \in { "db", "llm", "llm_src" }
    /\ exMax \in (IF exLoop = "db" THEN { MAX_RETRIES } ELSE 0..MaxRetriesBound)
    /\ exPc = "run"
    /\ exAttempt = 0
    /\ exHist = << >>
    /\ exLastError = NoErr
    /\ exResult = OkOut("none")
    /\ exSleeps = << >>

\* A variant of the retry condition with a budget one smaller.
DbShouldRetry_OneLess(attempt, e) ==
    attempt < MAX_RETRIES - 1 /\ is_retryable(e)

\* The condition of the retry branch of execute_with_retry.
DbShouldRetry(attempt, e) ==
    attempt < MAX_RETRIES /\ is_retryable(e)

\* A variant that keeps the first error instead of the latest.
record_error_First(last_error, error) ==
    IF last_error = NoErr THEN error ELSE last_error

\* `last_error = Some(error)` in execute_with_retry.
record_error(last_error, error) == error

\* A variant of the delay that doubles.
RetryDelay_Doubling(attempt) == 1000 * Pow2(attempt)

\* The delay of execute_with_retry in milliseconds, slept after the failed
\* attempt `attempt`.
RetryDelay(attempt) == 1000 * (attempt + 1)

\* One iteration of `for attempt in 0..=MAX_RETRIES` in execute_with_retry.
execute_with_retry_step(o) ==
    /\ exHist' = Append(exHist, o)
    /\ IF o.ok
       THEN /\ exResult' = OkOut(o.val)
            /\ exPc' = "done"
            /\ UNCHANGED <<exAttempt, exLastError, exSleeps>>
       ELSE /\ exLastError' = record_error(exLastError, o.err)
            /\ IF DbShouldRetry(exAttempt, exLastError')
               THEN /\ exSleeps' = Append(exSleeps, RetryDelay(exAttempt))
                    /\ exAttempt' = exAttempt + 1
                    /\ exPc' = "run"
                    /\ UNCHANGED exResult
               ELSE /\ exResult' = ErrOut(exLastError')
                    /\ exPc' = "done"
                    /\ UNCHANGED <<exAttempt, exSleeps>>

DbAttempt ==
    /\ exLoop = "db" /\ exPc = "run"
    /\ \E o \in DbOutcomes : execute_with_retry_step(o)
    /\ UNCHANGED <<exLoop, exMax>>

\* Step 4 of services/llm generate_response: the content of a parsed body.
LlmParse(h) ==
    IF h.body = "garbage" THEN ErrOut(Err("llm", "SerializationError", NoText))
    ELSE IF h.body = "no_content" THEN ErrOut(Err("llm", "InvalidApiResponse", NoText))
    ELSE OkOut(h.body)

\* A variant of the retry condition with a budget one larger.
LlmShouldRetry_OneMore(err, attempt) ==
    is_retryable(err) /\ attempt <= exMax + 1

\* The retry condition of services/llm generate_response.
LlmShouldRetry(err, attempt) ==
    is_retryable(err) /\ attempt <= exMax

\* One iteration of the loop of services/llm generate_response.
LlmAttempt ==
    /\ exLoop = "llm" /\ exPc = "run"
    /\ \E h \in HttpOutcomes :
         LET attempt == exAttempt + 1
             err == IF h.send_ok THEN LlmErrOfStatus(h)
                    ELSE Err("llm", "NetworkError", NoText)
         IN  /\ exHist' = Append(exHist, h)
             /\ exAttempt' = attempt
             /\ IF h.send_ok /\ h.status \in 200..299
                THEN /\ exResult' = LlmParse(h)
                     /\ exPc' = "done"
                     /\ UNCHANGED <<exLastError, exSleeps>>
                ELSE /\ exLastError' = err
                     /\ IF LlmShouldRetry(err, attempt)
                        THEN /\ exSleeps' = Append(exSleeps, Pow2(attempt - 1))
                             /\ exPc' = "run"
                             /\ UNCHANGED exResult
                        ELSE /\ exResult' = ErrOut(err)
                             /\ exPc' = "done"
                             /\ UNCHANGED exSleeps
    /\ UNCHANGED <<exLoop, exMax>>

\* One iteration of the loop of src/llm/client.rs generate_response;
\* exAttempt is the variable `retries`.
SrcLlmAttempt ==
    /\ exLoop = "llm_src" /\ exPc = "run"
    /\ \E h \in HttpOutcomes :
         LET r == call_api(h)
         IN  /\ exHist' = Append(exHist, h)
             /\ IF r.ok
                THEN /\ exResult' = IF r.val = "no_content"
                                    THEN ErrOut(Err("llm_src", "panic", NoText))
                                    ELSE r
                     /\ exPc' = "done"
                     /\ UNCHANGED <<exAttempt, exLastError, exSleeps>>
                ELSE /\ exLastError' = r.err
                     /\ IF exAttempt >= exMax
                        THEN /\ exResult' = r
                             /\ exPc' = "done"
                             /\ UNCHANGED <<exAttempt, exSleeps>>
                        ELSE IF SrcLlmIsRetryable(r.err)
                        THEN /\ exAttempt' = exAttempt + 1
                             /\ exSleeps' = Append(exSleeps, Pow2(exAttempt + 1))
                             /\ exPc' = "run"
                             /\ UNCHANGED exResult
                        ELSE /\ exResult' = r
                             /\ exPc' = "done"
                             /\ UNCHANGED <<exAttempt, exSleeps>>
    /\ UNCHANGED <<exLoop, exMax>>

(***************************************************************************)
(* Machine 3: MongoMemoryRepository, the document-store backend, used by   *)
(* one caller that issues one repository call at a time.                   *)
(*                                                                         *)
(* clock is the value Utc::now() returns.  mCorpus maps a user_id to the   *)
(* stored corpus document, mInter and mFrag are the interaction and        *)
(* fragment collections, mIdx the indexes ensure_indexes managed to        *)
(* create.  mCur is the call in progress or just completed.  mDeleted and  *)
(* mLastWrite record history: the users deleted and not written since, and *)
(* for each user the last successful write of the corpus.                  *)
(***************************************************************************)
MaxClock == 1
MaxCalls == 3
MaxInter == 2

Users == { "u1", "u2" }
UserIds == Users \cup { "" }

\* The characters of each user id.
UserIdChars ==
    [u \in UserIds \cup { "a@b" } |->
        CASE u = "u1" -> <<"u","1">>
          [] u = "u2" -> <<"u","2">>
          [] u = "" -> << >>
          [] u = "a@b" -> <<"a","@","b">>]

\* Values as they are stored in a BSON document.
BStr(x) == [ty |-> "string", v |-> x]
BI64(x) == [ty |-> "i64", v |-> x]
BNull == [ty |-> "null", v |-> "null"]

\* serde_json values of an updates map.
JStr(x) == [ty |-> "string", v |-> x]
JNum(x) == [ty |-> "number", v |-> x]

\* bson::to_bson of a serde_json value.
to_bson(j) == IF j.ty = "number" THEN BI64(j.v) ELSE BStr(j.v)

\* MemoryCorpus::new
MemoryCorpus_new(user_id, now) ==
    [user_id |-> user_id, version |-> "1.0", created_at |-> now,
     updated_at |-> now, name |-> "null"]

\* MemoryCorpus::default with the user_id and the name replaced.
MemoryCorpus_default(user_id, now, name) ==
    [user_id |-> user_id, version |-> "2.1", created_at |-> now,
     updated_at |-> now, name |-> name]

\* The document a MemoryCorpus serializes to (serde derive; chrono
\* timestamps serialize as text).
SerializeCorpus(c) ==
    [user_id |-> c.user_id, version |-> c.version,
     created_at |-> BStr(c.created_at), updated_at |-> BStr(c.updated_at),
     name |-> IF c.name = "null" THEN BNull ELSE BStr(c.name),
     extra |-> {}]

\* Whether a stored document deserializes to a MemoryCorpus: timestamps must
\* be text, an Option<String> must be text or null; unknown fields are ignored.
CorpusDeserializes(d) ==
    /\ d.created_at.ty = "string"
    /\ d.updated_at.ty = "string"
    /\ d.name.ty \in { "string", "null" }

DeserializeCorpus(d) ==
    [user_id |-> d.user_id, version |-> d.version,
     created_at |-> d.created_at.v, updated_at |-> d.updated_at.v,
     name |-> d.name.v]

\* InteractionLog::new
InteractionLog_new(log_id, user_id, now) ==
    [log_id |-> log_id, user_id |-> user_id, timestamp |-> now]

W_rust == <<"r","u","s","t">>
W_programming == <<"p","r","o","g","r","a","m","m","i","n","g">>
W_language == <<"l","a","n","g","u","a","g","e">>
W_features == <<"f","e","a","t","u","r","e","s">>
W_other == <<"o","t","h","e","r">>
W_Rust == <<"R","u","s","t">>
Sp == <<" ">>

\* MemoryFragment values found in the fragment collection.
Fragment(id, user_id, memory_type, content, created_at) ==
    [id |-> id, user_id |-> user_id, memory_type |-> memory_type,
     content |-> content, created_at |-> created_at]

\* Option<TimeRange> and Option<u32> of a MemoryQuery.
NoRange == [some |-> FALSE, start |-> 0, end |-> 0]
Range(a, b) == [some |-> TRUE, start |-> a, end |-> b]
NoLimit == -1

\* MemoryQuery
Query(user_id, query_text, memory_types, time_range, limit) ==
    [user_id |-> user_id, query_text |-> query_text, memory_types |-> memory_types,
     time_range |-> time_range, limit |-> limit]

QueryInputs ==
    { Query("u1", W_rust, {}, NoRange, 1),
      Query("u1", W_rust \o Sp \o W_programming, {}, NoRange, NoLimit),
      Query("u2", << >>, { "Episodic" }, NoRange, NoLimit),
      Query("None", << >>, {}, NoRange, NoLimit),
      Query("None", W_rust \o Sp \o W_other, {}, NoRange, 0),
      Query("u1", << >>, {}, Range(0, MaxClock), NoLimit),
      Query("", << >>, {}, NoRange, NoLimit) }

\* The updates maps passed to update_memory_corpus: sets of <<key, value>>.
UpdateInputs ==
    { {},
      { <<"core_profile.name", JStr("Alice")>> },
      { <<"core_profile.name", JStr("Bob")>>, <<"nickname", JStr("x")>> } }

\* Driver results: success, or an error with its display text.
DriverOk == [ok |-> TRUE, text |-> NoText]
DriverFail(t) == [ok |-> FALSE, text |-> t]
T_Network == <<"N","e","t","w","o","r","k">>
T_DupKey == <<"d","u","p"," ","k","e","y">>
T_Deserialize == <<"i","n","v","a","l","i","d"," ","t","y","p","e">>
T_NoTextIndex == <<"t","e","x","t"," ","i","n","d","e","x"," ","r","e","q","u","i","r","e","d">>
DriverOutcomes == { DriverOk, DriverFail(T_Network) }

\* The map_err closures of the repository: every driver error becomes
\* DatabaseOperationFailed carrying the driver's text.
OperationFailed(text) == Err("memory", "DatabaseOperationFailed", text)

\* MongoMemoryRepository::validate_user_id
validate_user_id(user_id) ==
    LET cs == UserIdChars[user_id]
    IN  IF Len(cs) = 0 THEN FALSE
        ELSE IF Len(cs) > 255 THEN FALSE
        ELSE IF contains(cs, <<"@">>) /\ ~contains(cs, <<".">>) THEN FALSE
        ELSE TRUE

\* MongoMemoryRepository::validate_memory_corpus
validate_memory_corpus(c) ==
    /\ validate_user_id(c.user_id)
    /\ c.version # ""
    /\ ~(c.updated_at < c.created_at)

ValidationError == Err("memory", "ValidationError", NoText)
DocumentNotFound == Err("memory", "DocumentNotFound", NoText)

Put(m, k, v) == [x \in DOMAIN m \cup {k} |-> IF x = k THEN v ELSE m[x]]
Remove(m, k) == [x \in DOMAIN m \ {k} |-> m[x]]

NoWrite == [op |-> "none", arg |-> "none", pre |-> {}]

IdleCall ==
    [pc |-> "idle", op |-> "none", user |-> "none", arg |-> "none",
     attempt |-> 0, calls |-> 0, steps |-> 0, probe |-> [ok |-> TRUE, text |-> NoText], last_error |-> NoErr,
     res |-> OkOut("none"),
     now |-> 0, pre |-> {}, hist |-> << >>]

\* Entry of a repository call: argument validation, then either an error
\* result or the start of execute_with_retry.
StartCall(op, user, arg, valid) ==
    /\ mCur.pc \in { "idle", "done" }
    /\ mCalls < MaxCalls
    /\ mCalls' = mCalls + 1
    /\ mCur' = [IdleCall EXCEPT
                  !.pc = IF valid THEN "run" ELSE "done",
                  !.op = op, !.user = user, !.arg = arg, !.now = clock,
                  !.pre = IF user \in DOMAIN mCorpus THEN { mCorpus[user] } ELSE {},
                  !.res = IF valid THEN OkOut("none") ELSE ErrOut(ValidationError)]
    /\ UNCHANGED <<clock, mIdx, mCorpus, mInter, mFrag, mDeleted, mLastWrite>>

\* The corpora a caller passes to save_memory_corpus at time now: one built
\* now or earlier, and one whose created_at was set after its updated_at.
CorpusInputs(u, now) ==
    { MemoryCorpus_new(u, at) : at \in 0..now }
        \cup { MemoryCorpus_default(u, now, "Alice"),
               [MemoryCorpus_new(u, now) EXCEPT !.created_at = now + 1] }

Call_save_memory_corpus ==
    \E u \in UserIds :
        \E c \in CorpusInputs(u, clock) :
            StartCall("save_memory_corpus", u, c, validate_memory_corpus(c))

Call_get_memory_corpus ==
    \E u \in UserIds :
        StartCall("get_memory_corpus", u, "none", validate_user_id(u))

Call_update_memory_corpus ==
    \E u \in Users, updates \in UpdateInputs :
        StartCall("update_memory_corpus", u, updates,
                  validate_user_id(u) /\ updates # {})

Call_save_interaction ==
    \E u \in Users, owner \in Users :
        Len(mInter) < MaxInter /\ StartCall("save_interaction", u,
                  InteractionLog_new(Len(mInter) + 1, owner, clock),
                  validate_user_id(u))

Call_get_recent_interactions ==
    \E u \in Users, limit \in { 0, 1, 5 } :
        StartCall("get_recent_interactions", u, limit, validate_user_id(u))

Call_search_memories ==
    \E q \in QueryInputs :
        StartCall("search_memories", q.user_id, q,
                  q.user_id = "None" \/ validate_user_id(q.user_id))

Call_health_check ==
    StartCall("health_check", "none", "none", TRUE)

Call_delete_user_data ==
    \E u \in Users :
        StartCall("delete_user_data", u, "none", validate_user_id(u))

Min(a, b) == IF a <= b THEN a ELSE b

\* The first n elements of a sequence.
Take(seq, n) == SubSeq(seq, 1, Min(n, Len(seq)))

\* The elements of a sequence that satisfy a test, in order.
RECURSIVE SelectSeqBy(_, _)
SelectSeqBy(seq, keep) ==
    IF seq = << >> THEN << >>
    ELSE (IF Head(seq) \in keep THEN <<Head(seq)>> ELSE << >>)
            \o SelectSeqBy(Tail(seq), keep)

\* str::split_whitespace
RECURSIVE split_whitespace(_)
split_whitespace(s) ==
    IF s = << >> THEN << >>
    ELSE IF Head(s) = " " THEN split_whitespace(Tail(s))
    ELSE LET ends == { i \in 1..Len(s) : s[i] = " " }
             stop == IF ends = {} THEN Len(s) + 1
                     ELSE CHOOSE i \in ends : \A j \in ends : i <= j
         IN  <<SubSeq(s, 1, stop - 1)>> \o split_whitespace(SubSeq(s, stop, Len(s)))

Range_(seq) == { seq[i] : i \in 1..Len(seq) }

\* The $text operator of the document store: a document matches when one of
\* its words equals, ignoring case, one of the words of the search string.
MongoTextMatch(content, search) ==
    Range_(split_whitespace(to_lowercase(content)))
        \cap Range_(split_whitespace(to_lowercase(search))) # {}

\* The filter document search_memories builds, applied to one fragment.
\* created_at is stored as text, which a numeric $gte/$lte range never matches.
SearchFilter(q, f) ==
    /\ q.user_id # "None" => f.user_id = q.user_id
    /\ ~q.time_range.some
    /\ q.memory_types # {} => f.memory_type \in q.memory_types
    /\ q.query_text # << >> => MongoTextMatch(f.content, q.query_text)

\* The cursor loop of search_memories: a fragment is pushed before the
\* limit is tested.
SearchCursor(matches, limit) ==
    IF limit = NoLimit THEN matches
    ELSE Take(matches, IF limit = 0 THEN 1 ELSE limit)

\* The orders in which the store can return a set of interactions sorted by
\* timestamp descending.
SortedDesc(S) ==
    { seq \in [1..Cardinality(S) -> S] :
        /\ \A i, j \in 1..Cardinality(S) : i # j => seq[i] # seq[j]
        /\ \A i, j \in 1..Cardinality(S) : i < j => seq[i].timestamp >= seq[j].timestamp }

\* FindOptions::limit: 0 means no limit.
FindLimit(seq, limit) == IF limit = 0 THEN seq ELSE Take(seq, limit)

\* The $set document of update_memory_corpus applied to a stored document.
ApplySet(d, updates, now) ==
    LET names == { kv \in updates : kv[1] = "core_profile.name" }
        others == { kv[1] : kv \in { x \in updates : x[1] # "core_profile.name" } }
    IN  [d EXCEPT
           !.name = IF names = {} THEN @ ELSE to_bson((CHOOSE kv \in names : TRUE)[2]),
           !.extra = @ \cup others,
           !.updated_at = BI64(now)]

\* The end of one iteration of execute_with_retry inside a repository call:
\* r is what the closure returned, d the driver result it saw.
AfterAttempt(r, d) ==
    LET le == IF r.ok THEN mCur.last_error ELSE record_error(mCur.last_error, r.err)
    IN  IF r.ok
        THEN [mCur EXCEPT !.pc = "done", !.res = r, !.calls = @ + 1,
                          !.hist = Append(@, d)]
        ELSE IF DbShouldRetry(mCur.attempt, le)
        THEN [mCur EXCEPT !.attempt = @ + 1, !.calls = @ + 1, !.last_error = le,
                          !.hist = Append(@, d)]
        ELSE [mCur EXCEPT !.pc = "done", !.res = ErrOut(le), !.calls = @ + 1,
                          !.last_error = le, !.hist = Append(@, d)]

FinishAttempt(r, d) == mCur' = AfterAttempt(r, d)

Running(op) == mCur.pc = "run" /\ mCur.op = op

\* The closure of save_memory_corpus: replace_one with upsert.
Attempt_save_memory_corpus ==
    /\ Running("save_memory_corpus")
    /\ \E d \in DriverOutcomes :
         IF d.ok
         THEN /\ mCorpus' = Put(mCorpus, mCur.arg.user_id, SerializeCorpus(mCur.arg))
              /\ mDeleted' = mDeleted \ { mCur.arg.user_id }
              /\ mLastWrite' = [mLastWrite EXCEPT ![mCur.arg.user_id] =
                                   [op |-> mCur.op, arg |-> mCur.arg, pre |-> mCur.pre]]
              /\ FinishAttempt(OkOut("unit"), d)
         ELSE /\ FinishAttempt(ErrOut(OperationFailed(d.text)), d)
              /\ UNCHANGED <<mCorpus, mDeleted, mLastWrite>>
    /\ UNCHANGED <<clock, mIdx, mInter, mFrag, mCalls>>

\* The closure of get_memory_corpus: find_one, deserialized by the driver.
get_memory_corpus_result(corpus, user_id, d) ==
    IF ~d.ok THEN ErrOut(OperationFailed(d.text))
    ELSE IF user_id \notin DOMAIN corpus THEN OkOut({})
    ELSE IF CorpusDeserializes(corpus[user_id])
    THEN OkOut({ DeserializeCorpus(corpus[user_id]) })
    ELSE ErrOut(OperationFailed(T_Deserialize))

Attempt_get_memory_corpus ==
    /\ Running("get_memory_corpus")
    /\ \E d \in DriverOutcomes :
         FinishAttempt(get_memory_corpus_result(mCorpus, mCur.user, d), d)
    /\ UNCHANGED <<clock, mIdx, mCorpus, mInter, mFrag, mDeleted, mLastWrite, mCalls>>

\* UpdateResult::matched_count of update_one with the filter {user_id}.
matched_count(corpus, user_id) == IF user_id \in DOMAIN corpus THEN 1 ELSE 0

\* The matched_count test that ends the closure of update_memory_corpus.
MatchedResult_Ignored(matched) == OkOut("unit")

MatchedResult(matched) ==
    IF matched = 0 THEN ErrOut(DocumentNotFound) ELSE OkOut("unit")

\* The closure of update_memory_corpus: update_one with $set, then the
\* matched_count test.
Attempt_update_memory_corpus ==
    /\ Running("update_memory_corpus")
    /\ \E d \in DriverOutcomes :
         IF ~d.ok
         THEN /\ FinishAttempt(ErrOut(OperationFailed(d.text)), d)
              /\ UNCHANGED <<mCorpus, mLastWrite>>
         ELSE LET matched == matched_count(mCorpus, mCur.user)
              IN  /\ mCorpus' = IF matched = 0 THEN mCorpus
                                ELSE Put(mCorpus, mCur.user,
                                         ApplySet(mCorpus[mCur.user], mCur.arg, mCur.now))
                  /\ mLastWrite' = IF matched = 0 THEN mLastWrite
                                   ELSE [mLastWrite EXCEPT ![mCur.user] =
                                           [op |-> mCur.op, arg |-> mCur.arg, pre |-> mCur.pre]]
                  /\ FinishAttempt(MatchedResult(matched), d)
    /\ UNCHANGED <<clock, mIdx, mInter, mFrag, mDeleted, mCalls>>

\* The closure of save_interaction: insert_one of the record as given.  The
\* unique index on "interaction_id", a field no record has, admits one
\* document only.
Attempt_save_interaction ==
    /\ Running("save_interaction")
    /\ \E d \in DriverOutcomes :
         LET dup == "interactions" \in mIdx /\ Len(mInter) >= 1
             dd == IF d.ok /\ dup THEN DriverFail(T_DupKey) ELSE d
         IN  IF dd.ok
             THEN /\ mInter' = Append(mInter, mCur.arg)
                  /\ mDeleted' = mDeleted \ { mCur.arg.user_id }
                  /\ FinishAttempt(OkOut("unit"), dd)
             ELSE /\ FinishAttempt(ErrOut(OperationFailed(dd.text)), dd)
                  /\ UNCHANGED <<mInter, mDeleted>>
    /\ UNCHANGED <<clock, mIdx, mCorpus, mFrag, mLastWrite, mCalls>>

\* The closure of search_memories.
Attempt_search_memories ==
    /\ Running("search_memories")
    /\ \E d \in DriverOutcomes :
         LET q == mCur.arg
             dd == IF d.ok /\ q.query_text # << >> /\ "fragments" \notin mIdx
                   THEN DriverFail(T_NoTextIndex) ELSE d
             matches == SelectSeqBy(mFrag, { f \in Range_(mFrag) : SearchFilter(q, f) })
         IN  IF dd.ok
             THEN FinishAttempt(OkOut(SearchCursor(matches, q.limit)), dd)
             ELSE FinishAttempt(ErrOut(OperationFailed(dd.text)), dd)
    /\ UNCHANGED <<clock, mIdx, mCorpus, mInter, mFrag, mDeleted, mLastWrite, mCalls>>

\* The find of get_recent_interactions over a collection: the filter on
\* user_id, the sort on timestamp descending and the limit.
find_recent(coll, user_id, limit) ==
    { FindLimit(sorted, limit) :
        sorted \in SortedDesc({ i \in Range_(coll) : i.user_id = user_id }) }

\* The closure of get_recent_interactions: find with sort and limit.
Attempt_get_recent_interactions ==
    /\ Running("get_recent_interactions")
    /\ \E d \in DriverOutcomes :
         IF d.ok
         THEN \E found \in find_recent(mInter, mCur.user, mCur.arg) :
                  FinishAttempt(OkOut(found), d)
         ELSE FinishAttempt(ErrOut(OperationFailed(d.text)), d)
    /\ UNCHANGED <<clock, mIdx, mCorpus, mInter, mFrag, mDeleted, mLastWrite, mCalls>>

ConnectionFailed(text) == Err("memory", "DatabaseConnectionFailed", text)

\* A variant of the closure of health_check in which a failing collection
\* access is an error.
health_check_closure_ProbeFatal(ping, probe) ==
    IF ~ping.ok THEN ErrOut(ConnectionFailed(ping.text))
    ELSE IF ~probe.ok THEN ErrOut(OperationFailed(probe.text))
    ELSE OkOut(TRUE)

\* The closure of health_check: the ping, whose failure is mapped to
\* DatabaseConnectionFailed, then a find_one whose failure is only logged.
health_check_closure(ping, probe) ==
    IF ~ping.ok THEN ErrOut(ConnectionFailed(ping.text)) ELSE OkOut(TRUE)

Attempt_health_check ==
    /\ Running("health_check")
    /\ \E ping \in DriverOutcomes :
         \E probe \in IF ping.ok THEN DriverOutcomes ELSE { DriverOk } :
            mCur' = [AfterAttempt(health_check_closure(ping, probe), ping)
                        EXCEPT !.probe = probe]
    /\ UNCHANGED <<clock, mIdx, mCorpus, mInter, mFrag, mDeleted, mLastWrite, mCalls>>

\* A variant of delete_many that removes the first matching document only.
DeleteMany_First(seq, u) ==
    LET hits == { i \in 1..Len(seq) : seq[i].user_id = u }
    IN  IF hits = {} THEN seq
        ELSE LET k == CHOOSE i \in hits : \A j \in hits : i <= j
             IN  SubSeq(seq, 1, k - 1) \o SubSeq(seq, k + 1, Len(seq))

\* delete_many with the filter { user_id: u }.
DeleteMany(seq, u) ==
    SelectSeqBy(seq, { x \in Range_(seq) : x.user_id # u })

\* The driver calls of the closure of delete_user_data that returned Ok when
\* call number `failing` failed (0: none failed).
CompletedDeletes(failing) == IF failing = 0 THEN 3 ELSE failing - 1

\* The deletes whose effect the store keeps: each delete is its own
\* operation, there is no transaction around them.
AppliedDeletes_Rollback(failing) == IF failing = 0 THEN 3 ELSE 0

AppliedDeletes(failing) == CompletedDeletes(failing)

\* The closure of delete_user_data: delete_one on the corpus collection,
\* delete_many on the interactions, delete_many on the fragments; the first
\* failing call ends the closure.
Attempt_delete_user_data ==
    /\ Running("delete_user_data")
    /\ \E failing \in 0..3, d \in DriverOutcomes :
         LET u == mCur.user
             k == AppliedDeletes(failing)
         IN  /\ (failing = 0) <=> d.ok
             /\ mCorpus' = IF k >= 1 THEN Remove(mCorpus, u) ELSE mCorpus
             /\ mInter' = IF k >= 2 THEN DeleteMany(mInter, u) ELSE mInter
             /\ mFrag' = IF k >= 3 THEN DeleteMany(mFrag, u) ELSE mFrag
             /\ mDeleted' = IF failing = 0 THEN mDeleted \cup { u } ELSE mDeleted
             /\ mLastWrite' = IF k = 0 THEN mLastWrite
                               ELSE [mLastWrite EXCEPT ![u] =
                                       [op |-> mCur.op, arg |-> "none", pre |-> mCur.pre]]
             /\ mCur' = [AfterAttempt(IF d.ok THEN OkOut("unit")
                                      ELSE ErrOut(OperationFailed(d.text)), d)
                            EXCEPT !.steps = CompletedDeletes(failing)]
    /\ UNCHANGED <<clock, mIdx, mCalls>>

\* Time passes.
Tick ==
    /\ clock < MaxClock
    /\ clock' = clock + 1
    /\ UNCHANGED <<mIdx, mCorpus, mInter, mFrag, mCur, mDeleted, mLastWrite, mCalls>>

MongoIdle ==
    /\ clock = 0 /\ mIdx = {} /\ mCorpus = << >> /\ mInter = << >> /\ mFrag = << >>
    /\ mCur = IdleCall /\ mDeleted = {} /\ mCalls = 0
    /\ mLastWrite = [u \in Users |-> NoWrite]

\* The state after MongoMemoryRepository::new: each create_indexes call of
\* ensure_indexes has succeeded or failed; the collections hold what earlier
\* runs left in them.
MongoInit ==
    /\ clock = 0
    /\ mIdx \in SUBSET { "interactions", "fragments" }
    /\ mCorpus = << >>
    /\ mInter = << >>
    /\ mFrag \in { << >>,
                   << Fragment("f1", "u1", "Episodic", W_Rust \o Sp \o W_programming, 0),
                      Fragment("f2", "u1", "Semantic",
                               W_rust \o Sp \o W_language \o Sp \o W_features, 0),
                      Fragment("f3", "u2", "Episodic", W_other, 0) >> }
    /\ mCur = IdleCall
    /\ mDeleted = {}
    /\ mLastWrite = [u \in Users |-> NoWrite]
    /\ mCalls = 0

(***************************************************************************)
(* Machine 4: MemoryDataRepository, the file-snapshot backend, called by   *)
(* concurrent tasks.                                                       *)
(*                                                                         *)
(* fCorpus, fInter and fFrag are the three maps, each behind its own       *)
(* RwLock; fLock holds, per lock, the task owning the write guard and the  *)
(* tasks owning read guards.  A guard is acquired when the lock allows it  *)
(* and a task that cannot acquire waits.  fFile is the persistence file:   *)
(* empty when it does not exist.  fTask is each task's call: its position, *)
(* its arguments, the PersistentData under construction and its result.    *)
(***************************************************************************)
MaxFileCalls == 2

Tasks == { "t1", "t2" }

\* The locks in the order save_to_file, get_user_statistics and
\* delete_user_data acquire them.
Locks == << "memory_corpus", "interactions", "memory_fragments" >>

PersistentData(c, i, f) ==
    [memory_corpus |-> c, interactions |-> i, memory_fragments |-> f]

EmptyData == PersistentData(<< >>, << >>, << >>)

\* The content of the persistence file: whether serde_json parses it, and
\* the data it parses to.
FileText(parses, data) == [parses |-> parses, data |-> data]

\* What an earlier run left in the persistence file.
StoredData ==
    PersistentData(
        [u \in { "u1" } |-> MemoryCorpus_new("u1", 0)],
        [u \in { "u1" } |-> << InteractionLog_new(1, "u1", 0),
                               InteractionLog_new(2, "u1", 1) >>],
        [u \in Users |->
            IF u = "u1"
            THEN << Fragment("f1", "u1", "Episodic", W_Rust \o Sp \o W_programming, 0),
                    Fragment("f2", "u1", "Semantic",
                             W_rust \o Sp \o W_language \o Sp \o W_features, 0) >>
            ELSE << Fragment("f3", "u2", "Episodic", W_other, 0) >>])

T_Io == <<"i","o">>

IdleTask ==
    [pc |-> "idle", op |-> "none", user |-> "none", arg |-> "none", stage |-> 0,
     snap |-> EmptyData, res |-> OkOut("none")]

\* tokio::sync::RwLock: a read guard is granted while no write guard exists,
\* a write guard while no guard exists; guards are not reentrant.
Unlocked == [writer |-> {}, readers |-> {}]
CanRead(l) == fLock[l].writer = {}
CanWrite(l) == fLock[l].writer = {} /\ fLock[l].readers = {}
ReadGuard(locks, l, t) == [locks EXCEPT ![l].readers = @ \cup { t }]
WriteGuard(locks, l, t) == [locks EXCEPT ![l].writer = { t }]

\* The read guards of a task go out of scope.
DropReadGuards(locks, t) ==
    [l \in DOMAIN locks |-> [locks[l] EXCEPT !.readers = @ \ { t }]]

\* All guards of a task go out of scope.
DropGuards(locks, t) ==
    [l \in DOMAIN locks |-> [writer |-> locks[l].writer \ { t },
                             readers |-> locks[l].readers \ { t }]]

\* The map behind a lock.
MapOf(l) ==
    CASE l = "memory_corpus" -> fCorpus
      [] l = "interactions" -> fInter
      [] l = "memory_fragments" -> fFrag

\* HashMap::get followed by unwrap_or_default, for maps of vectors.
GetVec(m, k) == IF k \in DOMAIN m THEN m[k] ELSE << >>

\* A task calls an operation of the repository.
FileStart(t, op, user, arg) ==
    /\ fTask[t].pc \in { "idle", "done" }
    /\ fCalls < MaxFileCalls
    /\ fCalls' = fCalls + 1
    /\ fTask' = [fTask EXCEPT ![t] =
                   [IdleTask EXCEPT !.pc = "body", !.op = op, !.user = user,
                                    !.arg = arg, !.stage = 1]]
    /\ UNCHANGED <<fFile, fCorpus, fInter, fFrag, fLock>>

FileCall_save_memory_corpus(t) ==
    \E u \in UserIds :
        \E c \in CorpusInputs(u, clock) :
            FileStart(t, "save_memory_corpus", u, c)

FileCall_get_memory_corpus(t) ==
    \E u \in Users : FileStart(t, "get_memory_corpus", u, "none")

FileCall_update_memory_corpus(t) ==
    \E u \in Users, updates \in UpdateInputs :
        FileStart(t, "update_memory_corpus", u, updates)

FileCall_save_interaction(t) ==
    \E u \in Users :
        FileStart(t, "save_interaction", u,
                  InteractionLog_new(Len(GetVec(fInter, u)) + 1, u, clock))

FileCall_get_recent_interactions(t) ==
    \E u \in Users, limit \in { 0, 1, 5 } :
        FileStart(t, "get_recent_interactions", u, limit)

FileCall_search_memories(t) ==
    \E q \in QueryInputs : FileStart(t, "search_memories", q.user_id, q)

FileCall_get_user_statistics(t) ==
    \E u \in Users : FileStart(t, "get_user_statistics", u, "none")

FileCall_delete_user_data(t) ==
    \E u \in Users : FileStart(t, "delete_user_data", u, "none")

FileCall_initialize(t) ==
    FileStart(t, "initialize", "none", "none")

InBody(t, op) == fTask[t].pc = "body" /\ fTask[t].op = op

\* A call returns: its guards are dropped.
FileReturn(t, r) ==
    /\ fTask' = [fTask EXCEPT ![t].pc = "done", ![t].res = r]
    /\ fLock' = DropGuards(fLock, t)

\* A call that holds its write guards goes on into save_to_file.
EnterSaveToFile(t, locks) ==
    /\ fTask' = [fTask EXCEPT ![t].pc = "save_to_file", ![t].stage = 1]
    /\ fLock' = locks

\* save_to_file: the three read guards are taken one after the other inside
\* one statement and live to its end; then the file is written.
save_to_file(t) ==
    /\ fTask[t].pc = "save_to_file"
    /\ LET k == fTask[t].stage
       IN  IF k <= 3
           THEN /\ CanRead(Locks[k])
                /\ fLock' = ReadGuard(fLock, Locks[k], t)
                /\ fTask' = [fTask EXCEPT ![t].stage = k + 1,
                                          ![t].snap[Locks[k]] = MapOf(Locks[k])]
                /\ UNCHANGED fFile
           ELSE IF k = 4
           THEN /\ fLock' = DropReadGuards(fLock, t)
                /\ fTask' = [fTask EXCEPT ![t].stage = 5]
                /\ UNCHANGED fFile
           ELSE \E out \in { "written", "failed", "truncated" } :
                /\ fFile' = CASE out = "written" -> { FileText(TRUE, fTask[t].snap) }
                              [] out = "truncated" -> { FileText(FALSE, EmptyData) }
                              [] out = "failed" -> fFile
                /\ FileReturn(t, IF out = "written" THEN OkOut("unit")
                                 ELSE ErrOut(OperationFailed(T_Io)))
    /\ UNCHANGED <<fCorpus, fInter, fFrag, fCalls>>

File_save_memory_corpus(t) ==
    /\ InBody(t, "save_memory_corpus")
    /\ CanWrite("memory_corpus")
    /\ fCorpus' = Put(fCorpus, fTask[t].arg.user_id, fTask[t].arg)
    /\ EnterSaveToFile(t, WriteGuard(fLock, "memory_corpus", t))
    /\ UNCHANGED <<fFile, fInter, fFrag, fCalls>>

File_get_memory_corpus(t) ==
    /\ InBody(t, "get_memory_corpus")
    /\ CanRead("memory_corpus")
    /\ FileReturn(t, OkOut(IF fTask[t].user \in DOMAIN fCorpus
                           THEN { fCorpus[fTask[t].user] } ELSE {}))
    /\ UNCHANGED <<fFile, fCorpus, fInter, fFrag, fCalls>>

\* The match of update_memory_corpus over the keys of the updates map.
FileApplyUpdates(c, updates, now) ==
    LET names == { kv \in updates : kv[1] = "core_profile.name" /\ kv[2].ty = "string" }
    IN  [c EXCEPT !.name = IF names = {} THEN @ ELSE (CHOOSE kv \in names : TRUE)[2].v,
                  !.updated_at = now]

File_update_memory_corpus(t) ==
    /\ InBody(t, "update_memory_corpus")
    /\ CanWrite("memory_corpus")
    /\ IF fTask[t].user \in DOMAIN fCorpus
       THEN /\ fCorpus' = Put(fCorpus, fTask[t].user,
                              FileApplyUpdates(fCorpus[fTask[t].user], fTask[t].arg, clock))
            /\ EnterSaveToFile(t, WriteGuard(fLock, "memory_corpus", t))
       ELSE /\ FileReturn(t, ErrOut(DocumentNotFound))
            /\ UNCHANGED fCorpus
    /\ UNCHANGED <<fFile, fInter, fFrag, fCalls>>

File_save_interaction(t) ==
    /\ InBody(t, "save_interaction")
    /\ CanWrite("interactions")
    /\ fInter' = Put(fInter, fTask[t].user,
                     Append(GetVec(fInter, fTask[t].user), fTask[t].arg))
    /\ EnterSaveToFile(t, WriteGuard(fLock, "interactions", t))
    /\ UNCHANGED <<fFile, fCorpus, fFrag, fCalls>>

\* The filter of search_memories: every keyword of the lowercased query text
\* occurs in the lowercased content; only the queried user's fragments.
FileSearch(frags, q) ==
    IF q.user_id = "None" \/ q.user_id \notin DOMAIN frags THEN << >>
    ELSE LET keywords == Range_(split_whitespace(to_lowercase(q.query_text)))
         IN  SelectSeqBy(frags[q.user_id],
                         { f \in Range_(frags[q.user_id]) :
                             \A keyword \in keywords :
                                 contains(to_lowercase(f.content), keyword) })

File_search_memories(t) ==
    /\ InBody(t, "search_memories")
    /\ CanRead("memory_fragments")
    /\ FileReturn(t, OkOut(FileSearch(fFrag, fTask[t].arg)))
    /\ UNCHANGED <<fFile, fCorpus, fInter, fFrag, fCalls>>

File_get_recent_interactions(t) ==
    /\ InBody(t, "get_recent_interactions")
    /\ CanRead("interactions")
    /\ FileReturn(t, OkOut(Take(GetVec(fInter, fTask[t].user), fTask[t].arg)))
    /\ UNCHANGED <<fFile, fCorpus, fInter, fFrag, fCalls>>

\* The UserStatistics get_user_statistics builds.
UserStatistics(u, now) ==
    LET v == GetVec(fInter, u)
    IN  [user_id |-> u,
         account_created |-> IF u \in DOMAIN fCorpus THEN fCorpus[u].created_at ELSE now,
         total_interactions |-> Len(v),
         total_memories |-> Len(GetVec(fFrag, u)),
         first_interaction |-> IF v = << >> THEN now ELSE v[Len(v)].timestamp,
         last_interaction |-> IF v = << >> THEN now ELSE v[1].timestamp]

\* get_user_statistics takes the three read guards in turn and holds them.
File_get_user_statistics(t) ==
    /\ InBody(t, "get_user_statistics")
    /\ LET k == fTask[t].stage
       IN  /\ CanRead(Locks[k])
           /\ IF k < 3
              THEN /\ fLock' = ReadGuard(fLock, Locks[k], t)
                   /\ fTask' = [fTask EXCEPT ![t].stage = k + 1]
              ELSE FileReturn(t, OkOut(UserStatistics(fTask[t].user, clock)))
    /\ UNCHANGED <<fFile, fCorpus, fInter, fFrag, fCalls>>

\* delete_user_data takes the three write guards in turn, removes the user
\* from the three maps and goes on into save_to_file holding the guards.
File_delete_user_data(t) ==
    /\ InBody(t, "delete_user_data")
    /\ LET k == fTask[t].stage
       IN  /\ CanWrite(Locks[k])
           /\ IF k < 3
              THEN /\ fLock' = WriteGuard(fLock, Locks[k], t)
                   /\ fTask' = [fTask EXCEPT ![t].stage = k + 1]
                   /\ UNCHANGED <<fCorpus, fInter, fFrag>>
              ELSE /\ fCorpus' = Remove(fCorpus, fTask[t].user)
                   /\ fInter' = Remove(fInter, fTask[t].user)
                   /\ fFrag' = Remove(fFrag, fTask[t].user)
                   /\ EnterSaveToFile(t, WriteGuard(fLock, Locks[k], t))
    /\ UNCHANGED <<fFile, fCalls>>

\* A variant of the two `?` of load_from_file that lets a text that does not
\* parse through.
FileLoads_Unparsed(readable, text) == readable

\* The two `?` of load_from_file: read_to_string and serde_json::from_str
\* must both succeed.
FileLoads(readable, text) == readable /\ text.parses

\* initialize = load_from_file: a missing file is success; a file that cannot
\* be read or parsed is an error; otherwise the three maps are assigned one
\* after the other, each under its own short-lived write guard.
File_initialize(t) ==
    /\ InBody(t, "initialize")
    /\ LET k == fTask[t].stage
       IN  IF k = 1
           THEN /\ IF fFile = {} THEN FileReturn(t, OkOut("unit"))
                   ELSE \E readable \in BOOLEAN : \E text \in fFile :
                        IF ~FileLoads(readable, text)
                        THEN FileReturn(t, ErrOut(OperationFailed(T_Io)))
                        ELSE /\ fTask' = [fTask EXCEPT ![t].stage = 2,
                                                       ![t].snap = text.data]
                             /\ UNCHANGED fLock
                /\ UNCHANGED <<fCorpus, fInter, fFrag>>
           ELSE /\ CanWrite(Locks[k - 1])
                /\ fCorpus' = IF k = 2 THEN fTask[t].snap.memory_corpus ELSE fCorpus
                /\ fInter' = IF k = 3 THEN fTask[t].snap.interactions ELSE fInter
                /\ fFrag' = IF k = 4 THEN fTask[t].snap.memory_fragments ELSE fFrag
                /\ IF k < 4
                   THEN /\ fTask' = [fTask EXCEPT ![t].stage = k + 1]
                        /\ UNCHANGED fLock
                   ELSE FileReturn(t, OkOut("unit"))
    /\ UNCHANGED <<fFile, fCalls>>

FileIdle ==
    /\ fFile = {} /\ fCorpus = << >> /\ fInter = << >> /\ fFrag = << >>
    /\ fLock = [l \in Range_(Locks) |-> Unlocked]
    /\ fTask = [t \in Tasks |-> IdleTask]
    /\ fCalls = 0

\* The state after MemoryDataRepository::new: empty maps; the file is
\* missing, or holds what an earlier run wrote, or cannot be parsed.
FileInit ==
    /\ fFile \in { {}, { FileText(TRUE, StoredData) }, { FileText(FALSE, EmptyData) } }
    /\ fCorpus = << >> /\ fInter = << >> /\ fFrag = << >>
    /\ fLock = [l \in Range_(Locks) |-> Unlocked]
    /\ fTask = [t \in Tasks |-> IdleTask]
    /\ fCalls = 0

(***************************************************************************)
(* Machine 5: MemoryDataAccess of shared_logic, the access layer over the  *)
(* global database connection, used by one caller at a time.               *)
(*                                                                         *)
(* aCorpus, aInter and aFrag are the three collections in natural order;   *)
(* every document carries the ObjectId the store gave it.  aNextId is the  *)
(* next ObjectId.  aCur is the call just completed.  aSaved records, for   *)
(* each user, the corpus the last successful save_memory_corpus stored and *)
(* no delete_user_data has removed since.                                  *)
(***************************************************************************)
MaxAccessCalls == 3

\* Option<ObjectId>: None, or an id.
NoId == 0
UnknownId == 99

\* shared_logic's MemoryCorpus, as far as the access layer looks at it.
AccessCorpus(id, user_id, created_at, updated_at, name) ==
    [id |-> id, user_id |-> user_id, created_at |-> created_at,
     updated_at |-> updated_at, name |-> name]

\* shared_logic's InteractionLog and MemoryFragment.
AccessRecord(id, user_id, at) == [id |-> id, user_id |-> user_id, at |-> at]

DatabaseError(kind) == Err("database", kind, NoText)

\* MemoryDataAccess::validate_memory_corpus, validate_interaction_log and
\* validate_memory_fragment on the user_id.
AccessValidUser(user_id) == Len(UserIdChars[user_id]) # 0

IdleAccess == [op |-> "none", user |-> "none", arg |-> "none", res |-> OkOut("none")]

\* GLOBAL_DATABASE, unset or set, and the collections of the database whose
\* indexes exist.
NoDb == [set |-> FALSE, idx |-> {}]
IndexedCollections == << "memory_corpus", "interactions", "memory_fragments" >>

\* The end of an operation of MemoryDataAccess.  Its collections come from
\* get_database, which is to be called after initialize_database only.
AccessDone(op, user, arg, r) ==
    /\ aDb.set
    /\ aDb' = aDb
    /\ aCalls < MaxAccessCalls
    /\ aCalls' = aCalls + 1
    /\ aCur' = [op |-> op, user |-> user, arg |-> arg, res |-> r]

\* The positions of the documents a filter on one field selects.
Matching(seq, field, v) == { i \in 1..Len(seq) : seq[i][field] = v }

\* save_memory_corpus: replace_one by _id when the corpus carries an id,
\* insert_one otherwise.
Access_save_memory_corpus ==
    \E u \in UserIds, name \in { "null", "Alice" }, d \in DriverOutcomes,
       id \in { NoId, UnknownId } \cup { aCorpus[i].id : i \in 1..Len(aCorpus) } :
        LET corpus == AccessCorpus(id, u, clock, clock, name)
            corpus_to_save == [corpus EXCEPT !.updated_at = clock]
            hits == Matching(aCorpus, "id", id)
        IN  /\ IF ~AccessValidUser(u)
               THEN /\ AccessDone("save_memory_corpus", u, corpus,
                                  ErrOut(DatabaseError("ValidationError")))
                    /\ UNCHANGED <<aCorpus, aNextId, aSaved>>
               ELSE IF ~d.ok
               THEN /\ AccessDone("save_memory_corpus", u, corpus,
                                  ErrOut(DatabaseError("OperationFailed")))
                    /\ UNCHANGED <<aCorpus, aNextId, aSaved>>
               ELSE IF id # NoId /\ hits = {}
               THEN /\ AccessDone("save_memory_corpus", u, corpus,
                                  ErrOut(DatabaseError("NotFound")))
                    /\ UNCHANGED <<aCorpus, aNextId, aSaved>>
               ELSE IF id # NoId
               THEN /\ aCorpus' = [i \in 1..Len(aCorpus) |->
                                     IF i \in hits THEN corpus_to_save ELSE aCorpus[i]]
                    /\ aSaved' = [aSaved EXCEPT ![u] = { corpus_to_save }]
                    /\ AccessDone("save_memory_corpus", u, corpus, OkOut(id))
                    /\ UNCHANGED aNextId
               ELSE LET new == [corpus_to_save EXCEPT !.id = aNextId, !.created_at = clock]
                    IN  /\ aCorpus' = Append(aCorpus, new)
                        /\ aSaved' = [aSaved EXCEPT ![u] = { new }]
                        /\ aNextId' = aNextId + 1
                        /\ AccessDone("save_memory_corpus", u, corpus, OkOut(aNextId))
            /\ UNCHANGED <<aInter, aFrag>>

\* get_memory_corpus_by_user_id: find_one by user_id; with several matching
\* documents the store returns one of them.
Access_get_memory_corpus_by_user_id ==
    \E u \in UserIds, d \in DriverOutcomes :
        LET hits == Matching(aCorpus, "user_id", u)
        IN  /\ IF ~d.ok
               THEN AccessDone("get_memory_corpus_by_user_id", u, "none",
                               ErrOut(DatabaseError("OperationFailed")))
               ELSE IF hits = {}
               THEN AccessDone("get_memory_corpus_by_user_id", u, "none", OkOut({}))
               ELSE \E i \in hits :
                       AccessDone("get_memory_corpus_by_user_id", u, "none",
                                  OkOut({ aCorpus[i] }))
            /\ UNCHANGED <<aCorpus, aInter, aFrag, aNextId, aSaved>>

\* log_interaction and add_memory_fragment: validation, then insert_one.
Access_log_interaction ==
    \E u \in UserIds, d \in DriverOutcomes :
        /\ IF AccessValidUser(u) /\ d.ok
           THEN /\ aInter' = Append(aInter, AccessRecord(aNextId, u, clock))
                /\ aNextId' = aNextId + 1
                /\ AccessDone("log_interaction", u, "none", OkOut(aNextId))
           ELSE /\ AccessDone("log_interaction", u, "none",
                              ErrOut(DatabaseError(IF AccessValidUser(u)
                                                   THEN "OperationFailed"
                                                   ELSE "ValidationError")))
                /\ UNCHANGED <<aInter, aNextId>>
        /\ UNCHANGED <<aCorpus, aFrag, aSaved>>

Access_add_memory_fragment ==
    \E u \in UserIds, d \in DriverOutcomes :
        /\ IF AccessValidUser(u) /\ d.ok
           THEN /\ aFrag' = Append(aFrag, AccessRecord(aNextId, u, clock))
                /\ aNextId' = aNextId + 1
                /\ AccessDone("add_memory_fragment", u, "none", OkOut(aNextId))
           ELSE /\ AccessDone("add_memory_fragment", u, "none",
                              ErrOut(DatabaseError(IF AccessValidUser(u)
                                                   THEN "OperationFailed"
                                                   ELSE "ValidationError")))
                /\ UNCHANGED <<aFrag, aNextId>>
        /\ UNCHANGED <<aCorpus, aInter, aSaved>>

\* delete_user_data: delete_many on the corpus collection, on the fragments
\* and on the interactions; the first failing call ends it.  The result is
\* the number of documents deleted.
Access_delete_user_data ==
    \E u \in UserIds, failing \in 0..3 :
        LET c == IF failing = 1 THEN aCorpus ELSE DeleteMany(aCorpus, u)
            f == IF failing \in {1, 2} THEN aFrag ELSE DeleteMany(aFrag, u)
            i == IF failing \in {1, 2, 3} THEN aInter ELSE DeleteMany(aInter, u)
            total_deleted == (Len(aCorpus) - Len(c)) + (Len(aFrag) - Len(f))
                                + (Len(aInter) - Len(i))
        IN  /\ aCorpus' = c /\ aFrag' = f /\ aInter' = i
            /\ aSaved' = IF failing = 1 \/ u \notin Users THEN aSaved
                         ELSE [aSaved EXCEPT ![u] = {}]
            /\ AccessDone("delete_user_data", u, "none",
                          IF failing = 0 THEN OkOut(total_deleted)
                          ELSE ErrOut(DatabaseError("OperationFailed")))
            /\ UNCHANGED aNextId

AnyhowContext(text) == Err("anyhow", text, NoText)

\* ensure_database_indexes: create_indexes on the three collections in turn;
\* the first failing one ends the function with its error (`?`).
ensure_database_indexes(idx, failing) ==
    [ok  |-> failing = 0,
     idx |-> idx \cup { IndexedCollections[i] : i \in 1..CompletedDeletes(failing) }]

\* initialize_database: the url test, the client, the ping, the indexes and
\* the set of GLOBAL_DATABASE, each ending the function when it fails.
initialize_database(db, url, ping, failing) ==
    LET ix == ensure_database_indexes(db.idx, failing)
    IN  IF url = "empty"
        THEN [res |-> ErrOut(DatabaseError("ConfigurationError")), db |-> db]
        ELSE IF url = "unparsable"
        THEN [res |-> ErrOut(AnyhowContext("Failed to parse MongoDB URL")), db |-> db]
        ELSE IF ~ping.ok
        THEN [res |-> ErrOut(DatabaseError("ConnectionFailed")), db |-> db]
        ELSE IF ~ix.ok
        THEN [res |-> ErrOut(AnyhowContext("Failed to create indexes")),
              db |-> [db EXCEPT !.idx = ix.idx]]
        ELSE IF db.set
        THEN [res |-> ErrOut(AnyhowContext("Global database already initialized")),
              db |-> [db EXCEPT !.idx = ix.idx]]
        ELSE [res |-> OkOut("unit"), db |-> [set |-> TRUE, idx |-> ix.idx]]

Access_initialize_database ==
    \E url \in { "empty", "unparsable", "ok" }, ping \in DriverOutcomes, failing \in 0..3 :
        LET out == initialize_database(aDb, url, ping, failing)
        IN  /\ aCalls < MaxAccessCalls
            /\ aCalls' = aCalls + 1
            /\ aCur' = [op |-> "initialize_database", user |-> "none",
                        arg |-> [url |-> url, ping |-> ping, failing |-> failing],
                        res |-> out.res]
            /\ aDb' = out.db
            /\ UNCHANGED <<aCorpus, aInter, aFrag, aNextId, aSaved>>

AccessIdle ==
    /\ aCorpus = << >> /\ aInter = << >> /\ aFrag = << >>
    /\ aNextId = 1 /\ aCur = IdleAccess /\ aCalls = 0
    /\ aSaved = [u \in Users |-> {}]
    /\ aDb = NoDb

\* An empty database, before initialize_database or after it has succeeded.
AccessInit ==
    /\ aCorpus = << >> /\ aInter = << >> /\ aFrag = << >>
    /\ aNextId = 1 /\ aCur = IdleAccess /\ aCalls = 0
    /\ aSaved = [u \in Users |-> {}]
    /\ aDb \in { NoDb, [set |-> TRUE, idx |-> { IndexedCollections[i] : i \in 1..3 }] }

(***************************************************************************)
(* Machine 6: MemoryStore of the application crate (src/src/memory/        *)
(* store.rs): one RwLock over the memories and the interactions of every   *)
(* user, and a JSON file written after each mutation.  Tasks call it       *)
(* concurrently.                                                           *)
(***************************************************************************)
MaxStoreCalls == 2

\* InteractionLog::id = None
NoneId == 0
\* An id chosen by the caller, and the first id Uuid::new_v4 yields.
GivenId == 7
FirstUuid == 100

\* Option<usize> = None for limit and offset.
NoneUsize == -1

StoreData(m, i) == [memories |-> m, interactions |-> i]
EmptyStore == StoreData(<< >>, << >>)

\* struct Memory
StoreMemory(id, user_id, now) == [id |-> id, user_id |-> user_id, created_at |-> now]

\* struct InteractionLog of store.rs
StoreLog(id, user_id, session_id, now, content) ==
    [id |-> id, user_id |-> user_id, session_id |-> session_id,
     timestamp |-> now, content |-> content]

\* What an earlier run left in the file.
StoredStore ==
    StoreData([u1 |-> << StoreMemory(1, "u1", 0) >>],
              [u1 |-> << StoreLog(1, "u1", "s0", 0, 0) >>])

T_Panic == <<"p","a","n","i","c">>
AnyhowIo == Err("anyhow", "io", T_Io)
SlicePanic == Err("panic", "slice index", T_Panic)

IdleStoreTask ==
    [pc |-> "idle", op |-> "none", user |-> "none", arg |-> "none", id |-> NoneId,
     snap |-> EmptyStore, res |-> OkOut("none")]

\* A task calls an operation of the store; a task that panicked is gone.
StoreStart(t, op, user, arg) ==
    /\ sTask[t].pc \in { "idle", "done" }
    /\ sCalls < MaxStoreCalls
    /\ sCalls' = sCalls + 1
    /\ sTask' = [sTask EXCEPT ![t] =
                   [IdleStoreTask EXCEPT !.pc = "body", !.op = op, !.user = user,
                                         !.arg = arg]]
    /\ UNCHANGED <<clock, sMem, sInter, sFile, sReaders, sNextId>>

StoreCall_add_memory(t) ==
    \E u \in Users : StoreStart(t, "add_memory", u, "none")

StoreCall_get_user_memories(t) ==
    \E u \in Users : StoreStart(t, "get_user_memories", u, "none")

\* The caller fills session_id with its own name and content with the number
\* of the call, which tells its records apart.
StoreCall_log_interaction(t) ==
    \E u \in Users, id \in { NoneId, GivenId } :
        StoreStart(t, "log_interaction", u, StoreLog(id, u, t, clock, sCalls + 1))

StoreCall_get_user_interactions(t) ==
    \E u \in Users, limit \in { NoneUsize, 1 }, offset \in { NoneUsize, 2 } :
        StoreStart(t, "get_user_interactions", u, [limit |-> limit, offset |-> offset])

StoreCall_get_user_statistics(t) ==
    \E u \in Users : StoreStart(t, "get_user_statistics", u, "none")

InStore(t, op) == sTask[t].pc = "body" /\ sTask[t].op = op

StoreReturn(t, r) == sTask' = [sTask EXCEPT ![t].pc = "done", ![t].res = r]

\* Vec::push
Push_Front(vec, x) == <<x>> \o vec

Push(vec, x) == Append(vec, x)

\* add_memory up to `drop(data)`: the write guard is taken once no guard is
\* held, the memory is pushed and the guard dropped, with no await between.
Store_add_memory(t) ==
    /\ InStore(t, "add_memory")
    /\ sReaders = {}
    /\ LET u == sTask[t].user
       IN  /\ sMem' = Put(sMem, u, Push(GetVec(sMem, u), StoreMemory(sNextId, u, clock)))
           /\ sTask' = [sTask EXCEPT ![t].pc = "save", ![t].id = sNextId]
    /\ sNextId' = sNextId + 1
    /\ UNCHANGED <<clock, sInter, sFile, sReaders, sCalls>>

\* log_interaction up to `drop(data)`: the record, with its id filled in, is
\* pushed onto the vector of interaction.user_id.
Store_log_interaction(t) ==
    /\ InStore(t, "log_interaction")
    /\ sReaders = {}
    /\ LET given == sTask[t].arg
           id == IF given.id = NoneId THEN sNextId ELSE given.id
           log == [given EXCEPT !.id = id]
       IN  /\ sInter' = Put(sInter, given.user_id,
                            Push(GetVec(sInter, given.user_id), log))
           /\ sTask' = [sTask EXCEPT ![t].pc = "save", ![t].id = id]
           /\ sNextId' = IF given.id = NoneId THEN sNextId + 1 ELSE sNextId
    /\ UNCHANGED <<clock, sMem, sFile, sReaders, sCalls>>

\* The read guard `data` of MemoryStore::save lives to the end of the
\* function, across fs::write.
SaveGuard_Dropped(readers, t) == readers

SaveGuard(readers, t) == readers \cup { t }

\* MemoryStore::save, first half: the read guard is taken and the data
\* serialized.  No write guard outlives a step, so the read is never refused.
save_serialize(t) ==
    /\ sTask[t].pc = "save"
    /\ sReaders' = SaveGuard(sReaders, t)
    /\ sTask' = [sTask EXCEPT ![t].pc = "write", ![t].snap = StoreData(sMem, sInter)]
    /\ UNCHANGED <<clock, sMem, sInter, sFile, sNextId, sCalls>>

\* MemoryStore::save, second half: fs::write under the read guard, then the
\* guard goes out of scope and the call returns the id or the error.
save_write(t) ==
    /\ sTask[t].pc = "write"
    /\ \E out \in { "written", "failed", "truncated" } :
         /\ sFile' = CASE out = "written" -> { FileText(TRUE, sTask[t].snap) }
                       [] out = "truncated" -> { FileText(FALSE, EmptyStore) }
                       [] out = "failed" -> sFile
         /\ sTask' = [sTask EXCEPT ![t].pc = "done", ![t].snap = EmptyStore,
                                   ![t].res = IF out = "written" THEN OkOut(sTask[t].id)
                                              ELSE ErrOut(AnyhowIo)]
    /\ sReaders' = sReaders \ { t }
    /\ UNCHANGED <<clock, sMem, sInter, sNextId, sCalls>>

Store_get_user_memories(t) ==
    /\ InStore(t, "get_user_memories")
    /\ StoreReturn(t, OkOut(GetVec(sMem, sTask[t].user)))
    /\ UNCHANGED <<clock, sMem, sInter, sFile, sReaders, sNextId, sCalls>>

\* interactions[start..end]: the slice panics when start exceeds end.
SliceRange(len, limit, offset) ==
    LET start == IF offset = NoneUsize THEN 0 ELSE offset
        end == IF limit = NoneUsize THEN len ELSE Min(start + limit, len)
    IN  [start |-> start, end |-> end]

Store_get_user_interactions(t) ==
    /\ InStore(t, "get_user_interactions")
    /\ LET all == GetVec(sInter, sTask[t].user)
           r == SliceRange(Len(all), sTask[t].arg.limit, sTask[t].arg.offset)
       IN  IF r.start > r.end
           THEN sTask' = [sTask EXCEPT ![t].pc = "panicked", ![t].res = ErrOut(SlicePanic)]
           ELSE StoreReturn(t, OkOut(SubSeq(all, r.start + 1, r.end)))
    /\ UNCHANGED <<clock, sMem, sInter, sFile, sReaders, sNextId, sCalls>>

Store_get_user_statistics(t) ==
    /\ InStore(t, "get_user_statistics")
    /\ StoreReturn(t, OkOut([total_memories |-> Len(GetVec(sMem, sTask[t].user)),
                             total_interactions |-> Len(GetVec(sInter, sTask[t].user))]))
    /\ UNCHANGED <<clock, sMem, sInter, sFile, sReaders, sNextId, sCalls>>

StoreIdle ==
    /\ sMem = << >> /\ sInter = << >> /\ sFile = {} /\ sReaders = {}
    /\ sTask = [t \in Tasks |-> IdleStoreTask]
    /\ sNextId = FirstUuid /\ sCalls = 0

\* MemoryStore::new: the data of the file if it exists, else empty data.
LoadStore_Empty(file) == EmptyStore

LoadStore(file) ==
    IF file = {} THEN EmptyStore ELSE (CHOOSE text \in file : TRUE).data

\* The state after MemoryStore::initialize.
StoreInit ==
    /\ sFile \in { {}, { FileText(TRUE, StoredStore) } }
    /\ sMem = LoadStore(sFile).memories
    /\ sInter = LoadStore(sFile).interactions
    /\ sReaders = {}
    /\ sTask = [t \in Tasks |-> IdleStoreTask]
    /\ sNextId = FirstUuid /\ sCalls = 0

\* The process ends, at any point, and a new process runs
\* MemoryStore::initialize on the same file; a file that does not parse makes
\* initialize fail and the process exit, so no store exists then.
StoreRestart ==
    /\ sCalls < MaxStoreCalls
    /\ \A text \in sFile : text.parses
    /\ sCalls' = sCalls + 1
    /\ sMem' = LoadStore(sFile).memories
    /\ sInter' = LoadStore(sFile).interactions
    /\ sReaders' = {}
    /\ sTask' = [t \in Tasks |-> IdleStoreTask]
    /\ UNCHANGED <<clock, sFile, sNextId>>

\* The step is a restart of the process that owns the MemoryStore.
IsStoreRestart ==
    sCalls' = sCalls + 1 /\ sTask' = [t \in Tasks |-> IdleStoreTask]

(***************************************************************************)
(* Machine 7: the higher-level mutators of MongoMemoryRepository           *)
(* (upsert_task, add_follow_up), called by concurrent tasks.  Each reads   *)
(* the user's corpus (get_or_create_corpus), changes its copy and saves    *)
(* the whole corpus.  uCorpus is the corpus collection, uTask each task's  *)
(* call with its copy of the corpus.                                       *)
(***************************************************************************)
MaxUpsertCalls == 3

TaskIds == { "a", "b" }

\* MemoryCorpus::new, as far as the mutators look at it.
ActionCorpus_new(user_id, now) ==
    [user_id |-> user_id, created_at |-> now, updated_at |-> now,
     current_tasks |-> << >>, follow_ups |-> << >>]

UserTask(task_id, title) == [task_id |-> task_id, title |-> title]

IdleUpsert ==
    [pc |-> "idle", op |-> "none", user |-> "none", arg |-> UserTask("none", 0),
     corpus |-> {}, created |-> FALSE, res |-> OkOut("none")]

UpsertStart(t, op, user, arg) ==
    /\ uTask[t].pc \in { "idle", "done" }
    /\ uCalls < MaxUpsertCalls
    /\ uCalls' = uCalls + 1
    /\ uTask' = [uTask EXCEPT ![t] =
                    [IdleUpsert EXCEPT !.pc = "get", !.op = op, !.user = user, !.arg = arg]]
    /\ UNCHANGED uCorpus

UpsertCall_upsert_task(t) ==
    \E u \in UserIds, id \in TaskIds :
        UpsertStart(t, "upsert_task", u, UserTask(id, uCalls + 1))

UpsertCall_add_follow_up(t) ==
    \E u \in Users : UpsertStart(t, "add_follow_up", u, UserTask("none", uCalls + 1))

\* The end of the closure: a failure of the driver is DatabaseOperationFailed
\* and a bad user_id ValidationError, neither of which execute_with_retry
\* retries.
UpsertReturn(t, r) == uTask' = [uTask EXCEPT ![t].pc = "done", ![t].res = r]

\* get_or_create_corpus, the get_memory_corpus.
get_or_create_corpus_get(t) ==
    /\ uTask[t].pc = "get"
    /\ \E d \in DriverOutcomes :
         LET u == uTask[t].user
         IN  IF ~validate_user_id(u) THEN UpsertReturn(t, ErrOut(ValidationError))
             ELSE IF ~d.ok THEN UpsertReturn(t, ErrOut(OperationFailed(d.text)))
             ELSE IF u \in DOMAIN uCorpus
             THEN uTask' = [uTask EXCEPT ![t].pc = "apply", ![t].corpus = { uCorpus[u] }]
             ELSE uTask' = [uTask EXCEPT ![t].pc = "create"]
    /\ UNCHANGED <<uCorpus, uCalls>>

\* get_or_create_corpus, the None branch: save_memory_corpus of a new corpus.
get_or_create_corpus_create(t) ==
    /\ uTask[t].pc = "create"
    /\ \E d \in DriverOutcomes :
         LET corpus == ActionCorpus_new(uTask[t].user, clock)
         IN  IF d.ok
             THEN /\ uCorpus' = Put(uCorpus, uTask[t].user, corpus)
                  /\ uTask' = [uTask EXCEPT ![t].pc = "apply", ![t].corpus = { corpus },
                                            ![t].created = TRUE]
             ELSE /\ UpsertReturn(t, ErrOut(OperationFailed(d.text)))
                  /\ UNCHANGED uCorpus
    /\ UNCHANGED uCalls

\* A variant of upsert_task that replaces an existing task and never adds one.
apply_upsert_task_ReplaceOnly(corpus, task) ==
    [corpus EXCEPT !.current_tasks =
        [i \in 1..Len(@) |-> IF @[i].task_id = task.task_id THEN task ELSE @[i]]]

\* The change upsert_task makes to its copy: the task with the same task_id
\* is replaced, or the task is pushed.
apply_upsert_task(corpus, task) ==
    IF \E i \in 1..Len(corpus.current_tasks) :
           corpus.current_tasks[i].task_id = task.task_id
    THEN [corpus EXCEPT !.current_tasks =
            [i \in 1..Len(@) |-> IF @[i].task_id = task.task_id THEN task ELSE @[i]]]
    ELSE [corpus EXCEPT !.current_tasks = Append(@, task)]

apply_add_follow_up(corpus, follow_up) ==
    [corpus EXCEPT !.follow_ups = Append(@, follow_up)]

\* What replace_one with upsert leaves stored: the caller's corpus.
SavedCorpus(stored, corpus) == corpus

\* The rest of the closure: the change, updated_at, and save_memory_corpus
\* of the whole corpus.
upsert_apply_and_save(t) ==
    /\ uTask[t].pc = "apply"
    /\ \E d \in DriverOutcomes :
         LET mine == CHOOSE c \in uTask[t].corpus : TRUE
             changed == IF uTask[t].op = "upsert_task"
                        THEN apply_upsert_task(mine, uTask[t].arg)
                        ELSE apply_add_follow_up(mine, uTask[t].arg)
             corpus == [changed EXCEPT !.updated_at = clock]
             u == uTask[t].user
             stored == IF u \in DOMAIN uCorpus THEN { uCorpus[u] } ELSE {}
         IN  IF d.ok
             THEN /\ uCorpus' = Put(uCorpus, u, SavedCorpus(stored, corpus))
                  /\ UpsertReturn(t, OkOut("unit"))
             ELSE /\ UpsertReturn(t, ErrOut(OperationFailed(d.text)))
                  /\ UNCHANGED uCorpus
    /\ UNCHANGED uCalls

UpsertIdle ==
    /\ uCorpus = << >> /\ uTask = [t \in Tasks |-> IdleUpsert] /\ uCalls = 0

UpsertInit == UpsertIdle

(***************************************************************************)
(* Machine 8: EmailWorkflow::process_incoming_email of the application     *)
(* crate (src/src/workflow.rs), one message at a time.  wMsg is the        *)
(* message, wPc the position in the function, wTrace the calls made so     *)
(* far, each with its outcome, and wRes the result.                        *)
(***************************************************************************)
MaxFlowCalls == 3

allowed_sender == "owner@x"
Senders == { allowed_sender, "Owner@x", "other@y" }

EmailMessage(from, to) == [from |-> from, to |-> to]

Effect(call, ok) == [call |-> call, ok |-> ok]

AnyhowError(call) == Err("anyhow", call, NoText)

FlowStart ==
    /\ wPc \in { "idle", "done" }
    /\ wCalls < MaxFlowCalls
    /\ wCalls' = wCalls + 1
    /\ \E from \in Senders, to \in { << >>, << "bot@x" >> } :
          wMsg' = EmailMessage(from, to)
    /\ wPc' = "check"
    /\ wTrace' = << >>
    /\ wRes' = OkOut("none")

\* A variant of the sender test that lets every sender in.
SenderAllowed_Anyone(from, allowed) == TRUE

\* `message.from.email != self.allowed_sender`, negated.
SenderAllowed(from, allowed) == from = allowed

\* The sender test: Ok(()) at once for any other sender.
Flow_check ==
    /\ wPc = "check"
    /\ IF SenderAllowed(wMsg.from, allowed_sender)
       THEN wPc' = "log_in" /\ UNCHANGED wRes
       ELSE wPc' = "done" /\ wRes' = OkOut("unit")
    /\ UNCHANGED <<wMsg, wTrace, wCalls>>

\* `let _ = MemoryStore::log_interaction(..).await`: the result is dropped.
Flow_log(pc, call, next) ==
    /\ wPc = pc
    /\ \E ok \in BOOLEAN : wTrace' = Append(wTrace, Effect(call, ok))
    /\ wPc' = next
    /\ UNCHANGED <<wMsg, wRes, wCalls>>

\* A call followed by `?`: its error ends the function.
Flow_try(pc, call, next) ==
    /\ wPc = pc
    /\ \E ok \in BOOLEAN :
          /\ wTrace' = Append(wTrace, Effect(call, ok))
          /\ IF ok THEN wPc' = next /\ UNCHANGED wRes
             ELSE wPc' = "done" /\ wRes' = ErrOut(AnyhowError(call))
    /\ UNCHANGED <<wMsg, wCalls>>

Flow_log_incoming == Flow_log("log_in", "log_interaction UserToSystem", "analysis")
Flow_analysis == Flow_try("analysis", "generate_response email_analysis", "add_memory")
Flow_add_memory == Flow_try("add_memory", "add_memory", "reply")
Flow_reply == Flow_try("reply", "generate_response email_reply", "build")

\* The reply message: `message.to[0]` panics on a message without recipient.
Flow_build ==
    /\ wPc = "build"
    /\ IF wMsg.to = << >>
       THEN wPc' = "done" /\ wRes' = ErrOut(Err("panic", "index out of bounds", NoText))
       ELSE wPc' = "send" /\ UNCHANGED wRes
    /\ UNCHANGED <<wMsg, wTrace, wCalls>>

Flow_send == Flow_try("send", "send", "log_out")

Flow_log_reply ==
    /\ wPc = "log_out"
    /\ \E ok \in BOOLEAN : wTrace' = Append(wTrace, Effect("log_interaction SystemToUser", ok))
    /\ wPc' = "done"
    /\ wRes' = OkOut("unit")
    /\ UNCHANGED <<wMsg, wCalls>>

FlowIdle ==
    /\ wMsg = EmailMessage("none", << >>) /\ wPc = "idle" /\ wTrace = << >>
    /\ wRes = OkOut("none") /\ wCalls = 0

FlowInit == FlowIdle

(***************************************************************************)
(* Specifications.                                                         *)
(***************************************************************************)
InitErr == ErrInit /\ ExIdle /\ MongoIdle /\ FileIdle /\ AccessIdle /\ StoreIdle /\ UpsertIdle /\ FlowIdle
NextErr == Classify /\ UNCHANGED <<exVars, mongoVars, fileVars, accessVars, storeVars, upsertVars, flowVars>>
SpecErr == InitErr /\ [][NextErr]_vars

InitExec == ErrIdle /\ ExInit /\ MongoIdle /\ FileIdle /\ AccessIdle /\ StoreIdle /\ UpsertIdle /\ FlowIdle
NextExec ==
    \/ DbAttempt /\ UNCHANGED <<errVars, mongoVars, fileVars, accessVars, storeVars, upsertVars, flowVars>>
    \/ LlmAttempt /\ UNCHANGED <<errVars, mongoVars, fileVars, accessVars, storeVars, upsertVars, flowVars>>
    \/ SrcLlmAttempt /\ UNCHANGED <<errVars, mongoVars, fileVars, accessVars, storeVars, upsertVars, flowVars>>
SpecExec == InitExec /\ [][NextExec]_vars

InitMongo == ErrIdle /\ ExIdle /\ MongoInit /\ FileIdle /\ AccessIdle /\ StoreIdle /\ UpsertIdle /\ FlowIdle
NextMongo ==
    \/ Call_save_memory_corpus /\ UNCHANGED <<errVars, exVars, fileVars, accessVars, storeVars, upsertVars, flowVars>>
    \/ Call_get_memory_corpus /\ UNCHANGED <<errVars, exVars, fileVars, accessVars, storeVars, upsertVars, flowVars>>
    \/ Call_update_memory_corpus /\ UNCHANGED <<errVars, exVars, fileVars, accessVars, storeVars, upsertVars, flowVars>>
    \/ Call_save_interaction /\ UNCHANGED <<errVars, exVars, fileVars, accessVars, storeVars, upsertVars, flowVars>>
    \/ Call_get_recent_interactions /\ UNCHANGED <<errVars, exVars, fileVars, accessVars, storeVars, upsertVars, flowVars>>
    \/ Call_search_memories /\ UNCHANGED <<errVars, exVars, fileVars, accessVars, storeVars, upsertVars, flowVars>>
    \/ Call_delete_user_data /\ UNCHANGED <<errVars, exVars, fileVars, accessVars, storeVars, upsertVars, flowVars>>
    \/ Call_health_check /\ UNCHANGED <<errVars, exVars, fileVars, accessVars, storeVars, upsertVars, flowVars>>
    \/ Attempt_health_check /\ UNCHANGED <<errVars, exVars, fileVars, accessVars, storeVars, upsertVars, flowVars>>
    \/ Attempt_save_memory_corpus /\ UNCHANGED <<errVars, exVars, fileVars, accessVars, storeVars, upsertVars, flowVars>>
    \/ Attempt_get_memory_corpus /\ UNCHANGED <<errVars, exVars, fileVars, accessVars, storeVars, upsertVars, flowVars>>
    \/ Attempt_update_memory_corpus /\ UNCHANGED <<errVars, exVars, fileVars, accessVars, storeVars, upsertVars, flowVars>>
    \/ Attempt_save_interaction /\ UNCHANGED <<errVars, exVars, fileVars, accessVars, storeVars, upsertVars, flowVars>>
    \/ Attempt_get_recent_interactions /\ UNCHANGED <<errVars, exVars, fileVars, accessVars, storeVars, upsertVars, flowVars>>
    \/ Attempt_search_memories /\ UNCHANGED <<errVars, exVars, fileVars, accessVars, storeVars, upsertVars, flowVars>>
    \/ Attempt_delete_user_data /\ UNCHANGED <<errVars, exVars, fileVars, accessVars, storeVars, upsertVars, flowVars>>
    \/ Tick /\ UNCHANGED <<errVars, exVars, fileVars, accessVars, storeVars, upsertVars, flowVars>>
SpecMongo == InitMongo /\ [][NextMongo]_vars

InitFile == ErrIdle /\ ExIdle /\ MongoIdle /\ FileInit /\ AccessIdle /\ StoreIdle /\ UpsertIdle /\ FlowIdle
NextFile ==
    \/ \E t \in Tasks : FileCall_save_memory_corpus(t) /\ UNCHANGED <<errVars, exVars, mongoVars, accessVars, storeVars, upsertVars, flowVars>>
    \/ \E t \in Tasks : FileCall_get_memory_corpus(t) /\ UNCHANGED <<errVars, exVars, mongoVars, accessVars, storeVars, upsertVars, flowVars>>
    \/ \E t \in Tasks : FileCall_update_memory_corpus(t) /\ UNCHANGED <<errVars, exVars, mongoVars, accessVars, storeVars, upsertVars, flowVars>>
    \/ \E t \in Tasks : FileCall_save_interaction(t) /\ UNCHANGED <<errVars, exVars, mongoVars, accessVars, storeVars, upsertVars, flowVars>>
    \/ \E t \in Tasks : FileCall_get_recent_interactions(t) /\ UNCHANGED <<errVars, exVars, mongoVars, accessVars, storeVars, upsertVars, flowVars>>
    \/ \E t \in Tasks : FileCall_search_memories(t) /\ UNCHANGED <<errVars, exVars, mongoVars, accessVars, storeVars, upsertVars, flowVars>>
    \/ \E t \in Tasks : FileCall_get_user_statistics(t) /\ UNCHANGED <<errVars, exVars, mongoVars, accessVars, storeVars, upsertVars, flowVars>>
    \/ \E t \in Tasks : FileCall_delete_user_data(t) /\ UNCHANGED <<errVars, exVars, mongoVars, accessVars, storeVars, upsertVars, flowVars>>
    \/ \E t \in Tasks : FileCall_initialize(t) /\ UNCHANGED <<errVars, exVars, mongoVars, accessVars, storeVars, upsertVars, flowVars>>
    \/ \E t \in Tasks : File_save_memory_corpus(t) /\ UNCHANGED <<errVars, exVars, mongoVars, accessVars, storeVars, upsertVars, flowVars>>
    \/ \E t \in Tasks : File_get_memory_corpus(t) /\ UNCHANGED <<errVars, exVars, mongoVars, accessVars, storeVars, upsertVars, flowVars>>
    \/ \E t \in Tasks : File_update_memory_corpus(t) /\ UNCHANGED <<errVars, exVars, mongoVars, accessVars, storeVars, upsertVars, flowVars>>
    \/ \E t \in Tasks : File_save_interaction(t) /\ UNCHANGED <<errVars, exVars, mongoVars, accessVars, storeVars, upsertVars, flowVars>>
    \/ \E t \in Tasks : File_get_recent_interactions(t) /\ UNCHANGED <<errVars, exVars, mongoVars, accessVars, storeVars, upsertVars, flowVars>>
    \/ \E t \in Tasks : File_search_memories(t) /\ UNCHANGED <<errVars, exVars, mongoVars, accessVars, storeVars, upsertVars, flowVars>>
    \/ \E t \in Tasks : File_get_user_statistics(t) /\ UNCHANGED <<errVars, exVars, mongoVars, accessVars, storeVars, upsertVars, flowVars>>
    \/ \E t \in Tasks : File_delete_user_data(t) /\ UNCHANGED <<errVars, exVars, mongoVars, accessVars, storeVars, upsertVars, flowVars>>
    \/ \E t \in Tasks : File_initialize(t) /\ UNCHANGED <<errVars, exVars, mongoVars, accessVars, storeVars, upsertVars, flowVars>>
    \/ \E t \in Tasks : save_to_file(t) /\ UNCHANGED <<errVars, exVars, mongoVars, accessVars, storeVars, upsertVars, flowVars>>
    \/ Tick /\ UNCHANGED <<errVars, exVars, fileVars, accessVars, storeVars, upsertVars, flowVars>>
SpecFile == InitFile /\ [][NextFile]_vars

\* Every task is scheduled: a step of the repository that stays possible is
\* eventually taken.
FairSpecFile == SpecFile /\ WF_vars(NextFile)

InitAccess == ErrIdle /\ ExIdle /\ MongoIdle /\ FileIdle /\ AccessInit /\ StoreIdle /\ UpsertIdle /\ FlowIdle
NextAccess ==
    \/ Access_initialize_database /\ UNCHANGED <<errVars, exVars, mongoVars, fileVars, storeVars, upsertVars, flowVars>>
    \/ Access_save_memory_corpus /\ UNCHANGED <<errVars, exVars, mongoVars, fileVars, storeVars, upsertVars, flowVars>>
    \/ Access_get_memory_corpus_by_user_id /\ UNCHANGED <<errVars, exVars, mongoVars, fileVars, storeVars, upsertVars, flowVars>>
    \/ Access_log_interaction /\ UNCHANGED <<errVars, exVars, mongoVars, fileVars, storeVars, upsertVars, flowVars>>
    \/ Access_add_memory_fragment /\ UNCHANGED <<errVars, exVars, mongoVars, fileVars, storeVars, upsertVars, flowVars>>
    \/ Access_delete_user_data /\ UNCHANGED <<errVars, exVars, mongoVars, fileVars, storeVars, upsertVars, flowVars>>
    \/ Tick /\ UNCHANGED <<errVars, exVars, fileVars, accessVars, storeVars, upsertVars, flowVars>>
SpecAccess == InitAccess /\ [][NextAccess]_vars

InitStore == ErrIdle /\ ExIdle /\ MongoIdle /\ FileIdle /\ AccessIdle /\ StoreInit /\ UpsertIdle /\ FlowIdle
NextStore ==
    \/ \E t \in Tasks : StoreCall_add_memory(t) /\ UNCHANGED <<errVars, exVars, mongoRest, fileVars, accessVars, upsertVars, flowVars>>
    \/ \E t \in Tasks : StoreCall_get_user_memories(t) /\ UNCHANGED <<errVars, exVars, mongoRest, fileVars, accessVars, upsertVars, flowVars>>
    \/ \E t \in Tasks : StoreCall_log_interaction(t) /\ UNCHANGED <<errVars, exVars, mongoRest, fileVars, accessVars, upsertVars, flowVars>>
    \/ \E t \in Tasks : StoreCall_get_user_interactions(t) /\ UNCHANGED <<errVars, exVars, mongoRest, fileVars, accessVars, upsertVars, flowVars>>
    \/ \E t \in Tasks : StoreCall_get_user_statistics(t) /\ UNCHANGED <<errVars, exVars, mongoRest, fileVars, accessVars, upsertVars, flowVars>>
    \/ \E t \in Tasks : Store_add_memory(t) /\ UNCHANGED <<errVars, exVars, mongoRest, fileVars, accessVars, upsertVars, flowVars>>
    \/ \E t \in Tasks : Store_get_user_memories(t) /\ UNCHANGED <<errVars, exVars, mongoRest, fileVars, accessVars, upsertVars, flowVars>>
    \/ \E t \in Tasks : Store_log_interaction(t) /\ UNCHANGED <<errVars, exVars, mongoRest, fileVars, accessVars, upsertVars, flowVars>>
    \/ \E t \in Tasks : Store_get_user_interactions(t) /\ UNCHANGED <<errVars, exVars, mongoRest, fileVars, accessVars, upsertVars, flowVars>>
    \/ \E t \in Tasks : Store_get_user_statistics(t) /\ UNCHANGED <<errVars, exVars, mongoRest, fileVars, accessVars, upsertVars, flowVars>>
    \/ \E t \in Tasks : save_serialize(t) /\ UNCHANGED <<errVars, exVars, mongoRest, fileVars, accessVars, upsertVars, flowVars>>
    \/ \E t \in Tasks : save_write(t) /\ UNCHANGED <<errVars, exVars, mongoRest, fileVars, accessVars, upsertVars, flowVars>>
    \/ StoreRestart /\ UNCHANGED <<errVars, exVars, mongoRest, fileVars, accessVars, upsertVars, flowVars>>
SpecStore == InitStore /\ [][NextStore]_vars

InitUpsert == ErrIdle /\ ExIdle /\ MongoIdle /\ FileIdle /\ AccessIdle /\ StoreIdle /\ UpsertInit /\ FlowIdle
NextUpsert ==
    \/ \E t \in Tasks : UpsertCall_upsert_task(t) /\ UNCHANGED <<errVars, exVars, mongoVars, fileVars, accessVars, storeVars, flowVars>>
    \/ \E t \in Tasks : UpsertCall_add_follow_up(t) /\ UNCHANGED <<errVars, exVars, mongoVars, fileVars, accessVars, storeVars, flowVars>>
    \/ \E t \in Tasks : get_or_create_corpus_get(t) /\ UNCHANGED <<errVars, exVars, mongoVars, fileVars, accessVars, storeVars, flowVars>>
    \/ \E t \in Tasks : get_or_create_corpus_create(t) /\ UNCHANGED <<errVars, exVars, mongoVars, fileVars, accessVars, storeVars, flowVars>>
    \/ \E t \in Tasks : upsert_apply_and_save(t) /\ UNCHANGED <<errVars, exVars, mongoVars, fileVars, accessVars, storeVars, flowVars>>
SpecUpsert == InitUpsert /\ [][NextUpsert]_vars

InitFlow == ErrIdle /\ ExIdle /\ MongoIdle /\ FileIdle /\ AccessIdle /\ StoreIdle /\ UpsertIdle /\ FlowInit
NextFlow ==
    \/ FlowStart /\ UNCHANGED <<errVars, exVars, mongoVars, fileVars, accessVars, storeVars, upsertVars>>
    \/ Flow_check /\ UNCHANGED <<errVars, exVars, mongoVars, fileVars, accessVars, storeVars, upsertVars>>
    \/ Flow_log_incoming /\ UNCHANGED <<errVars, exVars, mongoVars, fileVars, accessVars, storeVars, upsertVars>>
    \/ Flow_analysis /\ UNCHANGED <<errVars, exVars, mongoVars, fileVars, accessVars, storeVars, upsertVars>>
    \/ Flow_add_memory /\ UNCHANGED <<errVars, exVars, mongoVars, fileVars, accessVars, storeVars, upsertVars>>
    \/ Flow_reply /\ UNCHANGED <<errVars, exVars, mongoVars, fileVars, accessVars, storeVars, upsertVars>>
    \/ Flow_build /\ UNCHANGED <<errVars, exVars, mongoVars, fileVars, accessVars, storeVars, upsertVars>>
    \/ Flow_send /\ UNCHANGED <<errVars, exVars, mongoVars, fileVars, accessVars, storeVars, upsertVars>>
    \/ Flow_log_reply /\ UNCHANGED <<errVars, exVars, mongoVars, fileVars, accessVars, storeVars, upsertVars>>
SpecFlow == InitFlow /\ [][NextFlow]_vars

(***************************************************************************)
(* Properties of the retry loops (SpecExec).                               *)
(***************************************************************************)
\* The result of the i-th invocation as the loop classifies it.
AttemptResult(i) ==
    LET o == exHist[i]
    IN  CASE exLoop = "db" -> o
          [] exLoop = "llm" ->
                IF ~o.send_ok THEN ErrOut(Err("llm", "NetworkError", NoText))
                ELSE IF o.status \in 200..299 THEN LlmParse(o)
                ELSE ErrOut(LlmErrOfStatus(o))
          [] exLoop = "llm_src" -> call_api(o)

\* The i-th invocation failed with an error the loop's taxonomy calls retryable.
RetryableFailure(i) ==
    /\ ~AttemptResult(i).ok
    /\ is_retryable(AttemptResult(i).err)

\* The number of consecutive retryable failures at the start of the history.
LeadingRetryable ==
    Cardinality({ i \in 1..Len(exHist) : \A j \in 1..i : RetryableFailure(j) })

\* C1: with execute_with_retry (max_retries = 3), an operation that fails
\* with retryable errors on attempts 1-3 is invoked a fourth time, and when
\* that fourth attempt succeeds the executor stops after exactly 4
\* invocations and returns the value of that attempt.
C1_RetryCount ==
    (exLoop = "db" /\ Len(exHist) >= 3 /\ \A i \in 1..3 : RetryableFailure(i))
        => /\ exPc = "done" => Len(exHist) = 4
           /\ (Len(exHist) >= 4 /\ exHist[4].ok)
                => /\ exPc = "done"
                   /\ Len(exHist) = 4
                   /\ exResult = OkOut(exHist[4].val)

C1_Witness ==
    /\ exLoop = "db" /\ exPc = "done" /\ Len(exHist) = 4
    /\ \A i \in 1..3 : RetryableFailure(i)
    /\ exHist[4].ok /\ exResult.ok /\ exResult.val = "v2"

\* C2: in each of the three retry loops, an operation whose first attempt
\* fails with a non-retryable error is invoked exactly once, whatever the
\* retry budget; in particular an HTTP 401 is never retried.
C2_FatalShortCircuit ==
    /\ (Len(exHist) >= 1 /\ ~AttemptResult(1).ok /\ ~is_retryable(AttemptResult(1).err))
          => (Len(exHist) = 1 /\ exPc = "done" /\ ~exResult.ok)
    /\ (exLoop \in { "llm", "llm_src" } /\ Len(exHist) >= 1
            /\ exHist[1].send_ok /\ exHist[1].status = 401)
          => (Len(exHist) = 1 /\ exPc = "done"
                /\ exResult.err.kind = "AuthenticationFailed")

C2_Witness ==
    /\ exLoop = "llm" /\ exMax = MaxRetriesBound /\ exPc = "done"
    /\ Len(exHist) = 1 /\ exHist[1].send_ok /\ exHist[1].status = 401

\* C3: a loop with retry budget N never invokes the operation more than N+1
\* times, never invokes it again after a success or a non-retryable failure,
\* and when it has returned it has invoked the operation exactly
\* min(k+1, N+1) times, k being the number of consecutive retryable failures
\* from the first attempt on.
C3_BoundAndTermination ==
    /\ exPc \in { "run", "done" }
    /\ Len(exHist) <= exMax + 1
    /\ exPc = "run" => Len(exHist) <= exMax
    /\ \A i \in 1..(Len(exHist) - 1) : RetryableFailure(i)
    /\ exPc = "done" => Len(exHist) = Min(LeadingRetryable + 1, exMax + 1)
    /\ exLoop = "db" => exMax = 3

C3_Witness ==
    /\ exLoop = "llm" /\ exMax = 2 /\ exPc = "done"
    /\ Len(exHist) = 3 /\ LeadingRetryable = 3

\* C4: when execute_with_retry gives up, the error it returns is the error
\* of the last attempt that was invoked, not the error of an earlier attempt
\* and not an error of another kind.
C4_LastError ==
    (exLoop = "db" /\ exPc = "done" /\ ~exResult.ok)
        => /\ ~exHist[Len(exHist)].ok
           /\ exResult.err = exHist[Len(exHist)].err

C4_Witness ==
    /\ exLoop = "db" /\ exPc = "done" /\ ~exResult.ok
    /\ Len(exHist) = 4
    /\ exHist[1].err.kind = "DatabaseConnectionFailed"
    /\ exHist[4].err.kind = "ConcurrencyConflict"
    /\ exResult.err.kind = "ConcurrencyConflict"

(***************************************************************************)
(* Properties of the error taxonomies (SpecErr).                           *)
(***************************************************************************)
\* The cause text names a network, timeout or connection problem.
TransientText(t) ==
    \/ contains(to_lowercase(t), S_network)
    \/ contains(to_lowercase(t), S_timeout)
    \/ contains(to_lowercase(t), S_connection)

\* C6 as stated: MemoryError::is_retryable is true exactly for connection
\* failures, timeouts and backend errors whose cause text contains
\* "network", "timeout" or "connection", and false for every other kind,
\* concurrency conflicts included.
C6_Original ==
    (errPc = "classified" /\ errIn.tax = "memory")
        => (errRetryableOut <=>
               \/ errIn.kind \in { "DatabaseConnectionFailed", "Timeout" }
               \/ errIn.kind = "MongoError" /\ TransientText(errIn.text))

\* C6 amended: MemoryError::is_retryable is true exactly for connection
\* failures, concurrency conflicts and MongoError values whose cause text,
\* compared case-insensitively, contains "network", "timeout" or
\* "connection"; it is false for every other kind, a plain operation
\* failure included whatever its details say.
C6_Retryable ==
    (errPc = "classified" /\ errIn.tax = "memory")
        => (errRetryableOut <=>
               \/ errIn.kind \in { "DatabaseConnectionFailed", "ConcurrencyConflict" }
               \/ errIn.kind = "MongoError" /\ TransientText(errIn.text))

C6_Witness ==
    /\ errPc = "classified" /\ errIn.tax = "memory"
    /\ errIn.kind = "MongoError"
    /\ errIn.text = <<"T","I","M","E","O","U","T">>
    /\ errRetryableOut = TRUE

\* C7: EmailError::is_fatal is true exactly for authentication,
\* configuration, validation and permission errors; no error is both fatal
\* and retryable; and in the memory, LLM and email taxonomies an
\* authentication, configuration or validation error is not retryable.
C7_FatalNeverRetried ==
    errPc = "classified"
        => /\ errIn.tax = "email"
                => /\ errFatalOut <=> errIn.kind \in
                        { "AuthenticationError", "ConfigurationError",
                          "ValidationError", "PermissionError" }
                   /\ ~(errFatalOut /\ errRetryableOut)
           /\ errIn.kind \in { "AuthenticationError", "AuthenticationFailed",
                               "ConfigurationError", "ValidationError" }
                => errRetryableOut = FALSE

C7_Witness ==
    /\ errPc = "classified" /\ errIn.tax = "email"
    /\ errIn.kind = "AuthenticationError"
    /\ errFatalOut = TRUE /\ errRetryableOut = FALSE

(***************************************************************************)
(* Properties of the document-store backend (SpecMongo).                   *)
(***************************************************************************)
RetriedOps ==
    { "save_memory_corpus", "get_memory_corpus", "update_memory_corpus",
      "save_interaction", "search_memories", "get_recent_interactions",
      "delete_user_data" }

\* The last backend call of the current repository call failed transiently.
LastDriverCallTransient ==
    /\ mCur.hist # << >>
    /\ ~mCur.hist[Len(mCur.hist)].ok
    /\ TransientText(mCur.hist[Len(mCur.hist)].text)

\* C5: every operation of the document-store backend retries a transient
\* backend failure: a call that ends with the error of a transient backend
\* failure has made 4 attempts, and a backend call that fails transiently
\* on an attempt before the fourth is followed by another attempt.
C5_TransientRetried ==
    (mCur.op \in RetriedOps /\ LastDriverCallTransient)
        => /\ mCur.pc = "done" => (~mCur.res.ok /\ mCur.calls = MAX_RETRIES + 1)
           /\ mCur.calls < MAX_RETRIES + 1 => mCur.pc = "run"

\* The corpus a completed get_memory_corpus returned, as a set: empty when
\* it returned None.
Returned == mCur.res.val

GetCompleted(u) ==
    /\ mCur.pc = "done" /\ mCur.op = "get_memory_corpus" /\ mCur.user = u
    /\ mCur.hist # << >> /\ mCur.hist[Len(mCur.hist)].ok

\* C8 for the document store: a get_memory_corpus that follows a successful
\* save_memory_corpus(c) of the same user, with no backend failure, returns
\* a present corpus with the user_id and version of c.
C8_MongoRoundTrip ==
    \A u \in Users :
        (GetCompleted(u) /\ mLastWrite[u].op = "save_memory_corpus")
            => /\ mCur.res.ok
               /\ \E c \in Returned :
                    /\ c.user_id = mLastWrite[u].arg.user_id
                    /\ c.version = mLastWrite[u].arg.version

C8_MongoWitness ==
    /\ GetCompleted("u1") /\ mLastWrite["u1"].op = "save_memory_corpus"
    /\ mCur.res.ok /\ \E c \in Returned : c.version = "2.1" /\ c.name = "Alice"

\* The name an updates map sets, as a set.
NameSet(updates) == { kv[2].v : kv \in { x \in updates : x[1] = "core_profile.name" } }

\* C9: after save_memory_corpus(c) and a successful
\* update_memory_corpus(user, {core_profile.name: v}), get_memory_corpus(user)
\* returns a corpus whose core_profile.name is v and whose updated_at is
\* strictly greater than the updated_at before the update.
C9_UpdateVisibility ==
    \A u \in Users :
        (GetCompleted(u) /\ mLastWrite[u].op = "update_memory_corpus"
             /\ NameSet(mLastWrite[u].arg) # {})
            => /\ mCur.res.ok
               /\ \E c \in Returned :
                    /\ c.name \in NameSet(mLastWrite[u].arg)
                    /\ \A before \in mLastWrite[u].pre :
                          c.updated_at > before.updated_at.v

\* C10: after delete_user_data(user) has returned success and until the next
\* write for that user, nothing of the user is stored, get_memory_corpus(user)
\* returns None, get_recent_interactions(user, N) is empty and no search
\* returns a fragment owned by the user.
C10_DeletionComplete ==
    \A u \in mDeleted :
        /\ u \notin DOMAIN mCorpus
        /\ \A i \in 1..Len(mInter) : mInter[i].user_id # u
        /\ \A i \in 1..Len(mFrag) : mFrag[i].user_id # u
        /\ (mCur.pc = "done" /\ mCur.res.ok)
              => /\ (mCur.op = "get_memory_corpus" /\ mCur.user = u) => Returned = {}
                 /\ (mCur.op = "get_recent_interactions" /\ mCur.user = u)
                        => mCur.res.val = << >>
                 /\ mCur.op = "search_memories"
                        => \A i \in 1..Len(mCur.res.val) : mCur.res.val[i].user_id # u

C10_Witness ==
    /\ "u1" \in mDeleted
    /\ mLastWrite["u1"].op = "delete_user_data" /\ mLastWrite["u1"].pre # {}
    /\ mCur.pc = "done" /\ mCur.res.ok /\ mCur.op = "search_memories"
    /\ mCur.arg.user_id = "None"
    /\ Len(mCur.res.val) = 1

(***************************************************************************)
(* Properties of the file-snapshot backend (SpecFile, FairSpecFile).       *)
(***************************************************************************)
\* C8 for the file snapshot: a save_memory_corpus(c) that was called
\* completes, and when it has completed successfully the corpus stored for
\* c.user_id has the user_id and the version of c.
C8_FileSaveCompletes ==
    \A t \in Tasks :
        (fTask[t].op = "save_memory_corpus" /\ fTask[t].pc # "done")
            ~> (/\ fTask[t].op = "save_memory_corpus" /\ fTask[t].pc = "done"
                /\ fTask[t].res.ok
                /\ fTask[t].user \in DOMAIN fCorpus
                /\ fCorpus[fTask[t].user].user_id = fTask[t].arg.user_id
                /\ fCorpus[fTask[t].user].version = fTask[t].arg.version)

\* A list of interactions ordered newest first by timestamp.
NewestFirst(seq) ==
    \A i, j \in 1..Len(seq) : i < j => seq[i].timestamp >= seq[j].timestamp

\* C11: a get_recent_interactions(user, limit) of the file snapshot that
\* returns gives min(limit, stored) of the user's stored interactions,
\* ordered newest first, and none of the interactions it leaves out is newer
\* than one it returns; so with I1 and a later I2 stored, limit 1 gives I2.
C11_RecencyOrdering ==
    [][\A t \in Tasks :
          (InBody(t, "get_recent_interactions") /\ fTask'[t].pc = "done")
              => LET stored == GetVec(fInter, fTask[t].user)
                     out == fTask'[t].res.val
                 IN  /\ Range_(out) \subseteq Range_(stored)
                     /\ Len(out) = Min(fTask[t].arg, Len(stored))
                     /\ NewestFirst(out)
                     /\ \A x \in Range_(stored) \ Range_(out) :
                            \A y \in Range_(out) : y.timestamp >= x.timestamp]_vars

\* The fragments of user a whose content contains every whitespace-delimited
\* token of the text as a case-insensitive substring.
ContainsEveryToken(frags, a, text) ==
    { f \in frags :
        /\ f.user_id = a
        /\ \A tok \in Range_(split_whitespace(to_lowercase(text))) :
              contains(to_lowercase(f.content), tok) }

\* C12: a search_memories of the document store for user A, with no type
\* filter, no time range and no limit, returns exactly the fragments of A
\* whose content contains every token of query_text, ignoring case, and no
\* fragment of another user.
C12_SearchCorrectness ==
    (/\ mCur.pc = "done" /\ mCur.op = "search_memories" /\ mCur.res.ok
     /\ mCur.arg.user_id \in Users
     /\ mCur.arg.memory_types = {} /\ ~mCur.arg.time_range.some
     /\ mCur.arg.limit = NoLimit)
        => Range_(mCur.res.val)
              = ContainsEveryToken(Range_(mFrag), mCur.arg.user_id, mCur.arg.query_text)

\* The records of a collection that carry the user_id b, in order.
OwnedBy(seq, b) == SelectSeqBy(seq, { x \in Range_(seq) : x.user_id = b })

\* What the document store holds for user b.
StoredFor(corpus, inter, frag, b) ==
    << IF b \in DOMAIN corpus THEN { corpus[b] } ELSE {},
       OwnedBy(inter, b), OwnedBy(frag, b) >>

\* C13: a step of an operation of the document store issued with user_id A
\* leaves what is stored for every other user B unchanged, and a
\* get_recent_interactions(A) or get_memory_corpus(A) that completes returns
\* nothing that carries the user_id of B; in particular save_interaction(A,
\* record) stores the record under A, whatever the record says.
C13_UserIsolation ==
    [][\A b \in Users :
          (mCur.pc = "run" /\ mCur.user # b)
              => /\ StoredFor(mCorpus', mInter', mFrag', b)
                        = StoredFor(mCorpus, mInter, mFrag, b)
                 /\ (mCur'.pc = "done" /\ mCur'.res.ok
                        /\ mCur.op = "get_recent_interactions")
                       => \A x \in Range_(mCur'.res.val) : x.user_id # b
                 /\ (mCur'.pc = "done" /\ mCur'.res.ok /\ mCur.op = "get_memory_corpus")
                       => \A c \in mCur'.res.val : c.user_id # b]_vars

\* C14: a save_memory_corpus of the file snapshot whose corpus is invalid
\* (here: an empty user_id) ends, at its first step, with ValidationError,
\* without touching the maps or the file.
C14_InvalidCorpusRejected ==
    [][\A t \in Tasks :
          (/\ InBody(t, "save_memory_corpus")
           /\ ~validate_memory_corpus(fTask[t].arg)
           /\ fTask'[t] # fTask[t])
              => /\ fTask'[t].pc = "done"
                 /\ ~fTask'[t].res.ok
                 /\ fTask'[t].res.err.kind = "ValidationError"
                 /\ fCorpus' = fCorpus
                 /\ fFile' = fFile]_vars

(***************************************************************************)
(* Properties of the access layer of shared_logic (SpecAccess).            *)
(***************************************************************************)
\* C15: after any sequence of save_memory_corpus calls of the access layer
\* there is at most one stored corpus per user_id, and a
\* get_memory_corpus_by_user_id that succeeds returns the corpus the last
\* successful save for that user stored.
C15_UpsertByUserId ==
    \A u \in Users :
        /\ Cardinality(Matching(aCorpus, "user_id", u)) <= 1
        /\ (aCur.op = "get_memory_corpus_by_user_id" /\ aCur.user = u /\ aCur.res.ok)
              => aCur.res.val = aSaved[u]

\* ---------------------------------------------------------------------
\* Properties of update_memory_corpus and of delete_user_data
\* ---------------------------------------------------------------------

\* The driver answered the last update_one / find of the current call.
LastDriverCallAnswered ==
    mCur.hist # << >> /\ mCur.hist[Len(mCur.hist)].ok

\* C16: update_memory_corpus for a user that has no corpus, once the store
\* has answered, fails with DocumentNotFound after exactly one attempt (the
\* error is not retryable), and no corpus exists for the user afterwards: a
\* get_memory_corpus answered by the store returns None.
C16_UpdateMissingUser ==
    (/\ mCur.pc = "done" /\ mCur.op = "update_memory_corpus"
     /\ mCur.pre = {} /\ LastDriverCallAnswered)
        => /\ ~mCur.res.ok
           /\ mCur.res.err.kind = "DocumentNotFound"
           /\ ~MemoryIsRetryable(mCur.res.err)
           /\ mCur.calls = 1
           /\ mCur.user \notin DOMAIN mCorpus
           /\ get_memory_corpus_result(mCorpus, mCur.user, DriverOk) = OkOut({})

C16_Witness ==
    /\ mCur.pc = "done" /\ mCur.op = "update_memory_corpus"
    /\ mCur.pre = {} /\ LastDriverCallAnswered
    /\ mCur.res.err.kind = "DocumentNotFound"
    /\ mCur.calls = 1
    /\ mCorpus # << >>

\* The file backend's update_memory_corpus for a user without a corpus: the
\* step that leaves the body returns DocumentNotFound and changes neither the
\* corpus map nor the file.
C16_FileUpdateMissingUser ==
    [][\A t \in Tasks :
          (/\ InBody(t, "update_memory_corpus")
           /\ fTask[t].user \notin DOMAIN fCorpus
           /\ fTask'[t] # fTask[t])
              => /\ fTask'[t].pc = "done"
                 /\ ~fTask'[t].res.ok
                 /\ fTask'[t].res.err.kind = "DocumentNotFound"
                 /\ fCorpus' = fCorpus
                 /\ fFile' = fFile]_vars

\* C17: update_memory_corpus with an empty updates map, for a user that has
\* a stored corpus, fails with ValidationError and leaves the stored corpus,
\* updated_at included, unchanged.  File backend: the step that leaves the
\* body of the call.
C17_EmptyUpdatesRejected ==
    [][\A t \in Tasks :
          (/\ InBody(t, "update_memory_corpus")
           /\ fTask[t].arg = {}
           /\ fTask[t].user \in DOMAIN fCorpus
           /\ fTask'[t] # fTask[t])
              => /\ fTask'[t].pc = "done"
                 /\ ~fTask'[t].res.ok
                 /\ fTask'[t].res.err.kind = "ValidationError"
                 /\ fCorpus' = fCorpus
                 /\ fFile' = fFile]_vars

\* The same on the document-store backend: the call is rejected before any
\* driver call and the stored document is the one found at entry.
C17_MongoEmptyUpdatesRejected ==
    (mCur.pc = "done" /\ mCur.op = "update_memory_corpus" /\ mCur.arg = {})
        => /\ ~mCur.res.ok
           /\ mCur.res.err.kind = "ValidationError"
           /\ mCur.calls = 0
           /\ mCur.pre = (IF mCur.user \in DOMAIN mCorpus
                          THEN { mCorpus[mCur.user] } ELSE {})

\* The keys of an updates map.
Keys(updates) == { kv[1] : kv \in updates }

\* C18: a successful update_memory_corpus changes only the fields named by
\* recognized paths of the updates map, and updated_at: the document keeps
\* its user_id, version and created_at, gains no field, and keeps its name
\* unless "core_profile.name" is a key of the map.
C18_PartialUpdateFrame ==
    (/\ mCur.pc = "done" /\ mCur.op = "update_memory_corpus" /\ mCur.res.ok)
        => \A d0 \in mCur.pre :
              LET d1 == mCorpus[mCur.user]
              IN  /\ d1.user_id = d0.user_id
                  /\ d1.version = d0.version
                  /\ d1.created_at = d0.created_at
                  /\ d1.extra = d0.extra
                  /\ "core_profile.name" \notin Keys(mCur.arg) => d1.name = d0.name

\* The same frame on the file backend: the step that leaves the body of
\* update_memory_corpus for a stored corpus.
C18_FileUpdateFrame ==
    [][\A t \in Tasks :
          (/\ InBody(t, "update_memory_corpus")
           /\ fTask[t].user \in DOMAIN fCorpus
           /\ fTask'[t] # fTask[t])
              => LET u == fTask[t].user
                     c0 == fCorpus[u]
                     c1 == fCorpus'[u]
                 IN  /\ DOMAIN fCorpus' = DOMAIN fCorpus
                     /\ \A w \in DOMAIN fCorpus \ {u} : fCorpus'[w] = fCorpus[w]
                     /\ DOMAIN c1 = DOMAIN c0
                     /\ c1.user_id = c0.user_id
                     /\ c1.version = c0.version
                     /\ c1.created_at = c0.created_at
                     /\ "core_profile.name" \notin Keys(fTask[t].arg) => c1.name = c0.name]_vars

\* ---------------------------------------------------------------------
\* Properties of the interaction lists
\* ---------------------------------------------------------------------

IsPrefix(a, b) == Len(a) <= Len(b) /\ SubSeq(b, 1, Len(a)) = a

\* The records one caller (session_id) saved appear in the order it issued
\* them (content holds the number of the call).
IssueOrder(list) ==
    \A i, j \in 1..Len(list) :
        (i < j /\ list[i].session_id = list[j].session_id)
            => list[i].content < list[j].content

\* C19: interactions are append-only.  Every step of the store keeps each
\* user's list as a prefix of the new list (MemoryStore has no delete; a
\* restart of the process is not an operation of the store); the step in which
\* log_interaction takes the write guard makes the new list the old one with
\* the record, its id filled in, at the end; a call that returned Ok(id)
\* has its record in the list; and the records of one caller are in issue
\* order.
C19_AppendOnly ==
    [][~IsStoreRestart
          =>
             /\ \A u \in Users : IsPrefix(GetVec(sInter, u), GetVec(sInter', u))
             /\ \A t \in Tasks :
                  (InStore(t, "log_interaction") /\ sTask'[t] # sTask[t])
                      => LET u == sTask[t].arg.user_id
                             old == GetVec(sInter, u)
                             new == GetVec(sInter', u)
                         IN  /\ Len(new) = Len(old) + 1
                             /\ new[Len(new)] = [sTask[t].arg EXCEPT !.id = sTask'[t].id]
                             /\ \A w \in Users \ {u} : GetVec(sInter', w) = GetVec(sInter, w)
             /\ \A t \in Tasks :
                  (sTask[t].pc = "write" /\ sTask[t].op = "log_interaction"
                   /\ sTask'[t].pc = "done" /\ sTask'[t].res.ok)
                      => \E i \in 1..Len(GetVec(sInter', sTask[t].user)) :
                            /\ sInter'[sTask[t].user][i].id = sTask'[t].res.val
                            /\ sInter'[sTask[t].user][i].content = sTask[t].arg.content
             /\ \A u \in Users : IssueOrder(GetVec(sInter', u))]_vars

\* Two records of one caller, both saved successfully one after the other,
\* behind a record that was stored before.
C19_Witness ==
    \E u \in Users, t \in Tasks :
        /\ Len(GetVec(sInter, u)) >= 3
        /\ sInter[u][2].session_id = t /\ sInter[u][3].session_id = t
        /\ sTask[t].pc = "done" /\ sTask[t].op = "log_interaction" /\ sTask[t].res.ok

\* The same on the file backend: a step that is not part of delete_user_data
\* keeps every user's list as a prefix of the new one, and save_interaction
\* appends its record at the end.
C19_FileAppendOnly ==
    [][/\ (\A t \in Tasks : ~InBody(t, "delete_user_data"))
            => \A u \in Users : IsPrefix(GetVec(fInter, u), GetVec(fInter', u))
       /\ \A t \in Tasks :
            (InBody(t, "save_interaction") /\ fTask'[t] # fTask[t])
                => GetVec(fInter', fTask[t].user)
                      = Append(GetVec(fInter, fTask[t].user), fTask[t].arg)]_vars

\* ---------------------------------------------------------------------
\* Properties of delete_user_data
\* ---------------------------------------------------------------------

\* C20: delete_user_data is idempotent; in particular a delete_user_data that
\* was called returns, whether or not the user has data.  File backend, every
\* task being scheduled.
C20_FileDeleteReturns ==
    \A t \in Tasks :
        (fTask[t].op = "delete_user_data" /\ fTask[t].pc = "body")
            ~> (fTask[t].op = "delete_user_data" /\ fTask[t].pc = "done")

\* Idempotence on the document store: a delete_user_data that completes
\* successfully leaves nothing stored for the user, and when nothing was
\* stored for the user it changes no collection.
C20_MongoDeleteIdempotent ==
    [][(Running("delete_user_data") /\ mCur'.pc = "done" /\ mCur'.res.ok)
          => /\ StoredFor(mCorpus', mInter', mFrag', mCur.user) = << {}, << >>, << >> >>
             /\ StoredFor(mCorpus, mInter, mFrag, mCur.user) = << {}, << >>, << >> >>
                   => (mCorpus' = mCorpus /\ mInter' = mInter /\ mFrag' = mFrag)]_vars

\* Idempotence on the access layer of shared_logic: a successful
\* delete_user_data leaves no document of the user, and with no document of
\* the user it deletes nothing and reports zero.
C20_AccessDeleteIdempotent ==
    [][(aCur'.op = "delete_user_data" /\ aCalls' # aCalls /\ aCur'.res.ok)
          => LET u == aCur'.user
             IN  /\ Matching(aCorpus', "user_id", u) = {}
                 /\ Matching(aFrag', "user_id", u) = {}
                 /\ Matching(aInter', "user_id", u) = {}
                 /\ (/\ Matching(aCorpus, "user_id", u) = {}
                     /\ Matching(aFrag, "user_id", u) = {}
                     /\ Matching(aInter, "user_id", u) = {})
                       => (/\ aCorpus' = aCorpus /\ aFrag' = aFrag /\ aInter' = aInter
                           /\ aCur'.res.val = 0)]_vars

\* C21: delete_user_data of the document store is not atomic across the
\* collections.  The step that runs the closure deletes the corpus, then the
\* interactions, then the fragments; when driver call k+1 fails, the k
\* deletes that ran stay applied, the later ones have not happened, and the
\* call reports the error.
C21_DeleteNotAtomic ==
    [][(Running("delete_user_data") /\ mCur' # mCur)
          => LET u == mCur.user
                 k == mCur'.steps
             IN  /\ mCur'.res.ok <=> k = 3
                 /\ IF k >= 1 THEN u \notin DOMAIN mCorpus' ELSE mCorpus' = mCorpus
                 /\ IF k >= 2 THEN OwnedBy(mInter', u) = << >> ELSE mInter' = mInter
                 /\ IF k >= 3 THEN OwnedBy(mFrag', u) = << >> ELSE mFrag' = mFrag]_vars

\* The delete_many on the interactions failed after the corpus was deleted:
\* the corpus the user had is absent, interactions and fragments are stored.
C21_Witness ==
    /\ mCur.pc = "done" /\ mCur.op = "delete_user_data" /\ ~mCur.res.ok
    /\ mCur.steps = 1
    /\ mCur.pre # {}
    /\ mCur.user \notin DOMAIN mCorpus
    /\ OwnedBy(mInter, mCur.user) # << >>
    /\ OwnedBy(mFrag, mCur.user) # << >>

\* The same state on the access layer of shared_logic, which deletes the
\* corpus, then the fragments, then the interactions.
C21_AccessOrphans ==
    /\ aCur.op = "delete_user_data" /\ ~aCur.res.ok
    /\ aCur.user \in Users
    /\ Matching(aCorpus, "user_id", aCur.user) = {}
    /\ Matching(aFrag, "user_id", aCur.user) = {}
    /\ Matching(aInter, "user_id", aCur.user) # {}

\* ---------------------------------------------------------------------
\* Properties of the snapshot file
\* ---------------------------------------------------------------------

\* What a new MemoryStore would load from the file as it is now.
StoreFileData ==
    IF sFile = {} THEN { EmptyStore }
    ELSE { text.data : text \in { x \in sFile : x.parses } }

StoreQuiet == \A t \in Tasks : sTask[t].pc \in { "idle", "done", "panicked" }

\* C22: persistence is synchronous: whenever no operation of the store is in
\* progress, the content of the snapshot file equals the in-memory state.
C22_SnapshotEqualsMemory ==
    StoreQuiet => StoreFileData = { StoreData(sMem, sInter) }

\* The part of the claim about success: the step in which add_memory or
\* log_interaction returns Ok leaves a file that holds the in-memory state,
\* the effect of the mutation included.
C22_StoreSuccessPersisted ==
    [][\A t \in Tasks :
          (sTask[t].pc = "write" /\ sTask'[t].pc = "done" /\ sTask'[t].res.ok)
              => /\ sFile' = { FileText(TRUE, StoreData(sMem', sInter')) }
                 /\ \E u \in Users :
                       LET list == IF sTask[t].op = "add_memory"
                                   THEN GetVec(sMem', u) ELSE GetVec(sInter', u)
                       IN  \E i \in 1..Len(list) : list[i].id = sTask'[t].res.val]_vars

\* Every record of a store state.
StoreRecords(mem, inter) ==
    UNION { Range_(GetVec(mem, u)) \cup Range_(GetVec(inter, u)) : u \in Users }

\* The record whose creation task t was told had succeeded.
AckedRecords(t) ==
    IF ~(sTask[t].pc = "done" /\ sTask[t].res.ok) THEN {}
    ELSE IF sTask[t].op = "log_interaction"
    THEN { [sTask[t].arg EXCEPT !.id = sTask[t].res.val] }
    ELSE IF sTask[t].op = "add_memory"
    THEN { x \in Range_(GetVec(sMem, sTask[t].user)) : x.id = sTask[t].res.val }
    ELSE {}

\* C23: a new instance initialized on a file holds exactly the content of the
\* file, and holds nothing when there is no file; so the record of every
\* add_memory / log_interaction that returned Ok in the old instance is in
\* the new instance, unchanged.
C23_RestartRoundTrip ==
    [][IsStoreRestart
          => /\ sFile = {} => (sMem' = << >> /\ sInter' = << >>)
             /\ \A text \in sFile : StoreData(sMem', sInter') = text.data
             /\ \A t \in Tasks :
                  (/\ sTask[t].pc = "done" /\ sTask[t].res.ok
                   /\ sTask[t].op \in { "add_memory", "log_interaction" })
                      => /\ AckedRecords(t) # {}
                         /\ AckedRecords(t) \subseteq StoreRecords(sMem', sInter')]_vars

\* A new instance that holds a record the previous instance created.
C23_Witness ==
    /\ sCalls >= 2
    /\ sTask = [t \in Tasks |-> IdleStoreTask]
    /\ \E x \in StoreRecords(sMem, sInter) : x.id = FirstUuid

\* The same for MemoryDataRepository::initialize called while no other task
\* has used the repository: when it returns Ok the three maps hold the
\* content of the file, or are unchanged when there is no file.
C23_FileInitializeLoads ==
    [][\A t \in Tasks :
          (/\ InBody(t, "initialize")
           /\ fTask'[t].pc = "done" /\ fTask'[t].res.ok
           /\ \A o \in Tasks \ {t} : fTask[o].pc = "idle")
              => /\ fFile = {} => (fCorpus' = fCorpus /\ fInter' = fInter /\ fFrag' = fFrag)
                 /\ \A text \in fFile :
                       PersistentData(fCorpus', fInter', fFrag') = text.data]_vars

\* ---------------------------------------------------------------------
\* Properties of the locks of the file backend
\* ---------------------------------------------------------------------

\* The UserStatistics of user u in the snapshot d of the three maps.
SnapshotStatistics(d, u, now) ==
    LET v == GetVec(d.interactions, u)
    IN  [user_id |-> u,
         account_created |-> IF u \in DOMAIN d.memory_corpus
                             THEN d.memory_corpus[u].created_at ELSE now,
         total_interactions |-> Len(v),
         total_memories |-> Len(GetVec(d.memory_fragments, u)),
         first_interaction |-> IF v = << >> THEN now ELSE v[Len(v)].timestamp,
         last_interaction |-> IF v = << >> THEN now ELSE v[1].timestamp]

\* The states the three maps are in as one unit while no mutation has
\* returned: empty, as new() leaves them, or the content of the file, as
\* initialize leaves them.
WholeSnapshots == { EmptyData } \cup { text.data : text \in { x \in fFile : x.parses } }

\* C24: the three maps are guarded as one unit: a get_user_statistics that
\* returns reports the statistics of one whole snapshot, never those of an
\* initialize or a delete_user_data that is half applied.
C24_ConsistentSnapshot ==
    [][\A t \in Tasks :
          (InBody(t, "get_user_statistics") /\ fTask'[t].pc = "done")
              => fTask'[t].res.val
                    \in { SnapshotStatistics(d, fTask[t].user, clock) : d \in WholeSnapshots }]_vars

\* ---------------------------------------------------------------------
\* Properties of concurrent appends
\* ---------------------------------------------------------------------

\* The records of the snapshot file.
StoreFileRecords ==
    UNION { StoreRecords(text.data.memories, text.data.interactions) :
                text \in { x \in sFile : x.parses } }

\* C25: when the add_memory / log_interaction calls of two tasks have both
\* returned Ok, the records of both are in the in-memory state and in the
\* snapshot file, however the two calls were interleaved.
C25_ConcurrentAppendsKept ==
    \A t1, t2 \in Tasks :
        (t1 # t2 /\ AckedRecords(t1) # {} /\ AckedRecords(t2) # {})
            => /\ AckedRecords(t1) \cup AckedRecords(t2) \subseteq StoreRecords(sMem, sInter)
               /\ AckedRecords(t1) \cup AckedRecords(t2) \subseteq StoreFileRecords

\* Two log_interaction calls for one user that overlapped: the call issued
\* second pushed first, and both returned Ok.
C25_Witness ==
    \E t1, t2 \in Tasks, u \in Users :
        /\ t1 # t2
        /\ sTask[t1].op = "log_interaction" /\ sTask[t2].op = "log_interaction"
        /\ AckedRecords(t1) # {} /\ AckedRecords(t2) # {}
        /\ \E i, j \in 1..Len(GetVec(sInter, u)) :
              /\ i < j
              /\ sInter[u][i].session_id = t2 /\ sInter[u][j].session_id = t1
              /\ sInter[u][i].content > sInter[u][j].content

\* ---------------------------------------------------------------------
\* Properties of the two backends side by side
\* ---------------------------------------------------------------------

\* C26: the file snapshot and the document store answer alike: a
\* get_recent_interactions(user, limit) of the file snapshot returns what
\* the document store returns for the same call over the same stored
\* interactions of the user.
C26_BackendsAgree ==
    [][\A t \in Tasks :
          (InBody(t, "get_recent_interactions") /\ fTask'[t].pc = "done")
              => /\ fTask'[t].res.ok
                 /\ fTask'[t].res.val \in
                        find_recent(GetVec(fInter, fTask[t].user),
                                    fTask[t].user, fTask[t].arg)]_vars

\* ---------------------------------------------------------------------
\* Properties of the index setup
\* ---------------------------------------------------------------------

\* C27: index setup is not fatal: a first initialize_database whose url is
\* good and whose ping succeeds returns Ok and sets the global database,
\* whether or not the index creations fail.
C27_IndexSetupNonFatal ==
    [][(/\ aCalls' = aCalls + 1
        /\ aCur'.op = "initialize_database"
        /\ aCur'.arg.url = "ok" /\ aCur'.arg.ping.ok
        /\ ~aDb.set)
          => (aCur'.res.ok /\ aDb'.set)]_vars

\* Index setup is idempotent: an initialize_database that follows a
\* successful one, with every driver call succeeding, returns Ok again.
C27_SetupRepeatable ==
    [][(/\ aCalls' = aCalls + 1
        /\ aCur'.op = "initialize_database"
        /\ aCur'.arg.url = "ok" /\ aCur'.arg.ping.ok /\ aCur'.arg.failing = 0
        /\ aDb.set)
          => (aCur'.res.ok /\ aDb' = aDb)]_vars

\* ---------------------------------------------------------------------
\* Properties of health_check
\* ---------------------------------------------------------------------

C29_LinearBackoff ==
    exLoop = "db"
        => /\ \A i \in 1..Len(exSleeps) :
                /\ exSleeps[i] = 1000 * i
                /\ ~exHist[i].ok /\ is_retryable(exHist[i].err)
           /\ exPc = "run" => Len(exSleeps) = Len(exHist)
           /\ exPc = "done" => Len(exSleeps) = Len(exHist) - 1
           /\ Len(exSleeps) <= MAX_RETRIES

\* Four failed attempts with the sleeps of 1 s, 2 s and 3 s between them.
C29_Witness ==
    /\ exLoop = "db" /\ exPc = "done"
    /\ Len(exHist) = MAX_RETRIES + 1
    /\ exSleeps = << 1000, 2000, 3000 >>
    /\ ~exResult.ok

\* The larger of two numbers.
Max(a, b) == IF a >= b THEN a ELSE b

\* C30: in the two LLM retry loops the sleep after the failed attempt i
\* (counted from 0) lasts 2^i seconds, or the Retry-After of the response
\* when that is larger.
C30_ExponentialBackoff ==
    exLoop \in { "llm", "llm_src" }
        => \A i \in 1..Len(exSleeps) :
              exSleeps[i] = Max(Pow2(i - 1), exHist[i].retry_after)

\* The loop of services/llm sleeps 2^i seconds after the failed attempt i,
\* with or without a Retry-After.
C30_ServiceDelayIgnoresHint ==
    exLoop = "llm" => \A i \in 1..Len(exSleeps) : exSleeps[i] = Pow2(i - 1)

\* The loop of src/llm/client.rs sleeps 2^(i+1) seconds after the failed
\* attempt i.
C30_SrcDelayDoubled ==
    exLoop = "llm_src" => \A i \in 1..Len(exSleeps) : exSleeps[i] = Pow2(i)

\* ---------------------------------------------------------------------
\* Properties of the statistics
\* ---------------------------------------------------------------------

\* The timestamps of a list of interactions.
Timestamps(seq) == { seq[i].timestamp : i \in 1..Len(seq) }

\* C31: a get_user_statistics(user) of the file snapshot that returns
\* reports the number of the user's stored interactions, the timestamp of
\* the earliest as first_interaction and that of the latest as
\* last_interaction; with no interaction stored both are the current time.
C31_Statistics ==
    [][\A t \in Tasks :
          (InBody(t, "get_user_statistics") /\ fTask'[t].pc = "done")
              => LET stored == GetVec(fInter, fTask[t].user)
                     out == fTask'[t].res.val
                 IN  /\ fTask'[t].res.ok
                     /\ out.total_interactions = Len(stored)
                     /\ out.first_interaction <= out.last_interaction
                     /\ stored = << >>
                           => /\ out.first_interaction = clock
                              /\ out.last_interaction = clock
                     /\ stored # << >>
                           => /\ \A x \in Timestamps(stored) :
                                    /\ out.first_interaction <= x
                                    /\ x <= out.last_interaction
                              /\ out.first_interaction \in Timestamps(stored)
                              /\ out.last_interaction \in Timestamps(stored)]_vars

\* ---------------------------------------------------------------------
\* Properties of the result limits
\* ---------------------------------------------------------------------

\* C32: a search_memories of the file snapshot returns at most query.limit
\* fragments when a limit is given, and a get_recent_interactions(user,
\* limit) at most limit interactions.
C32_LimitsRespected ==
    [][\A t \in Tasks :
          /\ (InBody(t, "search_memories") /\ fTask'[t].pc = "done"
                /\ fTask'[t].res.ok /\ fTask[t].arg.limit # NoLimit)
                => Len(fTask'[t].res.val) <= fTask[t].arg.limit
          /\ (InBody(t, "get_recent_interactions") /\ fTask'[t].pc = "done"
                /\ fTask'[t].res.ok)
                => Len(fTask'[t].res.val) <= fTask[t].arg]_vars

\* The same for the document store.
C32_MongoLimitsRespected ==
    (mCur.pc = "done" /\ mCur.res.ok)
        => /\ (mCur.op = "search_memories" /\ mCur.arg.limit # NoLimit)
                => Len(mCur.res.val) <= mCur.arg.limit
           /\ mCur.op = "get_recent_interactions"
                => Len(mCur.res.val) <= mCur.arg

\* ---------------------------------------------------------------------
\* Properties of the timestamps of a corpus
\* ---------------------------------------------------------------------

\* C33: every corpus the document store holds has updated_at >= created_at,
\* and the step that completes a successful save_memory_corpus leaves the
\* user's corpus stored with updated_at equal to the time of the save.
C33_Timestamps ==
    [][/\ \A u \in DOMAIN mCorpus' :
             mCorpus'[u].updated_at.v >= mCorpus'[u].created_at.v
       /\ (Running("save_memory_corpus") /\ mCur'.pc = "done" /\ mCur'.res.ok)
             => mCorpus'[mCur.arg.user_id].updated_at.v = clock]_vars

\* The first half alone: updated_at >= created_at in the document store.
C33_MongoUpdatedAfterCreated ==
    \A u \in DOMAIN mCorpus : mCorpus[u].updated_at.v >= mCorpus[u].created_at.v

\* The first half for the file snapshot.
C33_FileUpdatedAfterCreated ==
    \A u \in DOMAIN fCorpus : fCorpus[u].updated_at >= fCorpus[u].created_at

(***************************************************************************)
(* Properties of the higher-level mutators (SpecUpsert).                   *)
(***************************************************************************)
\* Whether a corpus holds the change a call makes.
HoldsChange(corpus, op, arg) ==
    IF op = "upsert_task" THEN arg \in Range_(corpus.current_tasks)
    ELSE arg \in Range_(corpus.follow_ups)

\* C34: a higher-level mutator called for a user without corpus first saves
\* an empty corpus; when it then returns Ok the user's corpus is stored and
\* holds the change.
C34_AutoCreate ==
    [][\A t \in Tasks :
          /\ (uTask[t].pc = "get" /\ uTask'[t].pc = "create")
                => uTask[t].user \notin DOMAIN uCorpus
          /\ (uTask[t].pc = "create" /\ uTask'[t].pc = "apply")
                => uCorpus'[uTask[t].user] = ActionCorpus_new(uTask[t].user, clock)
          /\ (uTask[t].pc = "apply" /\ uTask'[t].pc = "done" /\ uTask'[t].res.ok)
                => /\ uTask[t].user \in DOMAIN uCorpus'
                   /\ HoldsChange(uCorpus'[uTask[t].user], uTask[t].op, uTask[t].arg)]_vars

\* upsert_task for a user without corpus has returned Ok, having created the
\* corpus, and the task is stored.
C34_Witness ==
    \E t \in Tasks :
        /\ uTask[t].pc = "done" /\ uTask[t].res.ok /\ uTask[t].created
        /\ uTask[t].op = "upsert_task"
        /\ uTask[t].user \in DOMAIN uCorpus
        /\ uTask[t].arg \in Range_(uCorpus[uTask[t].user].current_tasks)

\* The other path: update_memory_corpus of the document store for a user
\* without corpus answers DocumentNotFound or a driver failure and stores
\* nothing.
C34_UpdateCreatesNothing ==
    [][(Running("update_memory_corpus") /\ mCur.user \notin DOMAIN mCorpus
          /\ mCur'.pc = "done")
          => /\ ~mCur'.res.ok
             /\ mCur'.res.err.kind \in { "DocumentNotFound", "DatabaseOperationFailed" }
             /\ mCorpus' = mCorpus]_vars

\* Two calls whose changes do not replace one another: not two upsert_task
\* with the same task_id.
DistinctChanges(a, b) ==
    ~(a.op = "upsert_task" /\ b.op = "upsert_task" /\ a.arg.task_id = b.arg.task_id)

\* C37: when the mutators of two tasks for the same user have both returned
\* Ok, the stored corpus holds the change of both.
C37_NoLostUpdate ==
    \A t1, t2 \in Tasks :
        (/\ t1 # t2
         /\ uTask[t1].pc = "done" /\ uTask[t1].res.ok
         /\ uTask[t2].pc = "done" /\ uTask[t2].res.ok
         /\ uTask[t1].user = uTask[t2].user
         /\ DistinctChanges(uTask[t1], uTask[t2]))
            => /\ uTask[t1].user \in DOMAIN uCorpus
               /\ HoldsChange(uCorpus[uTask[t1].user], uTask[t1].op, uTask[t1].arg)
               /\ HoldsChange(uCorpus[uTask[t1].user], uTask[t2].op, uTask[t2].arg)

\* ---------------------------------------------------------------------
\* Properties of termination and of failed persistence (file snapshot)
\* ---------------------------------------------------------------------

MutatingOps ==
    { "save_memory_corpus", "update_memory_corpus", "save_interaction", "delete_user_data" }

\* C35: a mutating operation of the file snapshot called by a task while
\* the other tasks never call anything eventually returns.
C35_MutatorsTerminate ==
    \A t \in Tasks :
        ([](\A o \in Tasks \ { t } : fTask[o].pc = "idle"))
            => ((fTask[t].op \in MutatingOps /\ fTask[t].pc \notin { "idle", "done" })
                    ~> (fTask[t].pc = "done"))

\* The safety half of C35: no task waits in save_to_file for a read guard
\* of a lock whose write guard it holds itself.
C35_NoSelfWait ==
    \A t \in Tasks :
        ~(/\ fTask[t].pc = "save_to_file" /\ fTask[t].stage \in 1..3
          /\ fLock[Locks[fTask[t].stage]].writer = { t })

\* C36: when the write of the snapshot failed, the add_memory or
\* log_interaction that was told so has left no record in memory: the record
\* with the id the call had drawn is stored nowhere.
C36_FailedMutationInvisible ==
    \A t \in Tasks :
        (/\ sTask[t].pc = "done" /\ ~sTask[t].res.ok
         /\ sTask[t].op \in { "add_memory", "log_interaction" }
         /\ sTask[t].id >= FirstUuid)
            => \A x \in StoreRecords(sMem, sInter) : x.id # sTask[t].id

\* ---------------------------------------------------------------------
\* Properties of the paging of MemoryStore
\* ---------------------------------------------------------------------

\* C38: get_user_interactions(user, limit, offset) always returns: the
\* stored interactions at the positions offset .. offset + limit, in
\* insertion order, and none when offset is not below the number stored.
C38_PagingTotal ==
    [][\A t \in Tasks :
          (InStore(t, "get_user_interactions") /\ sTask'[t] # sTask[t])
              => LET all == GetVec(sInter, sTask[t].user)
                     offset == IF sTask[t].arg.offset = NoneUsize THEN 0
                               ELSE sTask[t].arg.offset
                     last == IF sTask[t].arg.limit = NoneUsize THEN Len(all)
                             ELSE Min(offset + sTask[t].arg.limit, Len(all))
                 IN  /\ sTask'[t].pc = "done"
                     /\ sTask'[t].res.ok
                     /\ sTask'[t].res.val =
                           [i \in 1..(IF last > offset THEN last - offset ELSE 0)
                               |-> all[offset + i]]]_vars

\* ---------------------------------------------------------------------
\* Properties of a failing initialize
\* ---------------------------------------------------------------------

\* C39: an initialize of the file snapshot on a file that cannot be read or
\* parsed returns an error at its first step and changes no map; a step of
\* initialize changes a map only after the whole file was parsed, and then
\* to that file's data.
C39_FailedInitializeKeepsMaps ==
    [][\A t \in Tasks :
          (InBody(t, "initialize") /\ fTask'[t] # fTask[t])
              => /\ (fTask[t].stage = 1 /\ fFile # {} /\ (\A text \in fFile : ~text.parses))
                       => (fTask'[t].pc = "done" /\ ~fTask'[t].res.ok)
                 /\ (fTask'[t].pc = "done" /\ ~fTask'[t].res.ok)
                       => /\ fTask[t].stage = 1
                          /\ <<fCorpus, fInter, fFrag>>' = <<fCorpus, fInter, fFrag>>
                 /\ (fTask[t].stage = 1 /\ fTask'[t].stage = 2)
                       => \E text \in fFile : text.parses /\ fTask'[t].snap = text.data
                 /\ <<fCorpus, fInter, fFrag>>' # <<fCorpus, fInter, fFrag>>
                       => /\ fTask[t].stage >= 2
                          /\ \E text \in fFile : text.parses /\ fTask[t].snap = text.data]_vars

\* An initialize has failed while the maps held data, and the data is still
\* there.
C39_Witness ==
    \E t \in Tasks :
        /\ fTask[t].op = "initialize" /\ fTask[t].pc = "done" /\ ~fTask[t].res.ok
        /\ fCorpus # << >> /\ fInter # << >> /\ fFrag # << >>

(***************************************************************************)
(* Properties of the email workflow (SpecFlow).                            *)
(***************************************************************************)

\* The positions of the calls of wTrace named call that succeeded.
Succeeded(call) == { i \in DOMAIN wTrace : wTrace[i] = Effect(call, TRUE) }

\* C40: process_incoming_email for a sender other than allowed_sender returns
\* Ok(()) having made no call at all; for the allowed sender the reply is sent
\* only after both generate_response calls succeeded, and the outbound
\* interaction is logged only after the send succeeded.
C40_UnauthorizedNoEffect ==
    /\ (wPc \notin { "idle", "check" } /\ wMsg.from # allowed_sender)
          => (wPc = "done" /\ wRes = OkOut("unit") /\ wTrace = << >>)
    /\ \A i \in DOMAIN wTrace :
          /\ wTrace[i].call = "send"
                => \E j \in Succeeded("generate_response email_analysis"),
                      k \in Succeeded("generate_response email_reply") : j < k /\ k < i
          /\ wTrace[i].call = "log_interaction SystemToUser"
                => \E s \in Succeeded("send") : s < i

\* A message of a sender that differs from allowed_sender only in case has
\* been processed.
C40_Witness ==
    /\ wPc = "done" /\ wMsg.from = "Owner@x" /\ wMsg.to # << >>
    /\ wRes = OkOut("unit") /\ wTrace = << >>

\* A message of the allowed sender has been answered and the reply logged.
C40_RepliedWitness ==
    /\ wPc = "done" /\ wMsg.from = allowed_sender /\ wRes = OkOut("unit")
    /\ Len(wTrace) = 6 /\ wTrace[5] = Effect("send", TRUE)
    /\ wTrace[6].call = "log_interaction SystemToUser"

====
